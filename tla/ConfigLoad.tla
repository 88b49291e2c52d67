----------------------------- MODULE ConfigLoad -----------------------------
(***************************************************************************)
(* configx: loading a configuration from defaults, dotenv files, files,    *)
(* the environment and command-line arguments, in the order of priority,   *)
(* again and again as a Watcher does.                                      *)
(*                                                                         *)
(* One key is followed; a value tells where it was read, and in which      *)
(* load.  What a file contains is chosen when it is read.  godotenv puts   *)
(* what it reads into the environment of the process, which stays.         *)
(***************************************************************************)
EXTENDS Integers, Sequences, FiniteSets

CONSTANTS
  MaxLoads,  \* bound: loads
  MaxArgs    \* bound: command-line arguments

ASSUME LoadAssumption == MaxArgs \in Nat

VARIABLES
  options,  \* Options: priority, ignoreDotenvErr, defaults, args, flags
  environ,  \* the key's value in the environment of the process
  load,     \* number of the load
  rank,     \* the source it is at, 0 when it has ended
  failed,   \* it has ended with an error
  k,        \* the koanf instance: the key's value
  config,   \* the Config of the last load that succeeded
  given     \* what this load has read, by source

loadVars == <<options, environ, load, rank, failed, k, config, given>>

Sources == {"dotenv", "file", "env", "args"}
DefaultPriority == <<"dotenv", "file", "env", "args">>
ValueFrom(src, i, n) == [from |-> src, nr |-> i, load |-> n]
NoValue == ValueFrom("none", 0, 0)

\* Arguments: a flag by its name and form, a word, or "--".  "x-y" and "x.y" name the
\* key, "z" another one.
Forms == {"=", "no-", "bare"}
FlagToken(name, form) == [name |-> name, form |-> form]
Word == FlagToken("none", "word")
End  == FlagToken("none", "--")
Tokens == {FlagToken(n, f) : n \in {"x-y", "x.y"}, f \in Forms} \cup {FlagToken("z", "bare"), Word, End}
defaultArgsName(name) == IF name = "z" THEN "z" ELSE "x.y"

\* Options with any order of the sources, or with any arguments.
LoadInit ==
  /\ options \in
       [priority : {p \in [1..4 -> Sources] : \A i, j \in 1..4 : p[i] = p[j] => i = j},
        ignore : BOOLEAN, defaults : {{}, {"typed", "map"}}, args : {<<>>, <<FlagToken("x-y", "=")>>}, flag : {FALSE}]
       \cup
       [priority : {DefaultPriority}, ignore : {TRUE}, defaults : {{"typed"}},
        args : UNION {[1..n -> Tokens] : n \in 0..MaxArgs}, flag : BOOLEAN]
  /\ environ \in {NoValue, ValueFrom("environment", 0, 0)}
  /\ load = 0 /\ rank = 0 /\ failed = FALSE /\ k = NoValue /\ config = NoValue
  /\ given = [s \in Sources |-> NoValue]

-----------------------------------------------------------------------------
(* loadArgs. *)

\* Fault: what follows "--" is parsed too.
StopsNever(i) == FALSE

\* rawArgToken: "--" ends the arguments.
Stops(i) == options.args[i] = End

\* One argument, given the entries from the next one on and from the one after: a bare
\* flag takes the next argument if it is a word.
parseRawArg(i, next, afterNext) ==
  LET t == options.args[i]
      takes == t.form = "bare" /\ i < Len(options.args) /\ options.args[i + 1] = Word
  IN IF Stops(i) THEN <<>>
     ELSE IF t.form \in Forms
       THEN <<[name |-> t.name, value |-> IF takes THEN i + 1 ELSE i]>> \o (IF takes THEN afterNext ELSE next)
     ELSE next

\* parseRawArgs: from a position on, the entries [name, value].
ParseFrom ==
  LET n == Len(options.args)
      parse[i \in 1..n + 2] == IF i > n THEN <<>> ELSE parseRawArg(i, parse[i + 1], parse[i + 2])
  IN parse

parseRawArgs == ParseFrom[1]

\* applyArgEntries: two names for one path are an error; of one name the last value counts.
Clash(entries) ==
  \E i, j \in DOMAIN entries : entries[i].name # entries[j].name
                               /\ defaultArgsName(entries[i].name) = defaultArgsName(entries[j].name)
OfKey(entries) == {i \in DOMAIN entries : defaultArgsName(entries[i].name) = "x.y"}
LastOfKey(entries) == entries[CHOOSE i \in OfKey(entries) : \A j \in OfKey(entries) : j <= i].value

\* The changed flags come after the raw arguments.
argsValue ==
  IF options.flag THEN ValueFrom("flag", 0, load)
  ELSE IF OfKey(parseRawArgs) # {} THEN ValueFrom("args", LastOfKey(parseRawArgs), load) ELSE NoValue

-----------------------------------------------------------------------------
(* loadConfigFromOptions. *)

Over(new, old) == IF new = NoValue THEN old ELSE new

\* Typed defaults, then the map over them.
loadConfiguredDefaults ==
  IF "map" \in options.defaults THEN ValueFrom("map", 0, 0)
  ELSE IF "typed" \in options.defaults THEN ValueFrom("typed", 0, 0) ELSE NoValue

BeginLoad ==
  /\ rank = 0 /\ load < MaxLoads
  /\ load' = load + 1 /\ rank' = 1 /\ failed' = FALSE /\ k' = loadConfiguredDefaults
  /\ given' = [s \in Sources |-> NoValue]
  /\ UNCHANGED <<options, environ, config>>

Loading(src) == rank > 0 /\ options.priority[rank] = src
Advance(value) ==
  /\ k' = value
  /\ rank' = (rank + 1) % 5
  /\ config' = IF rank = 4 THEN value ELSE config
  /\ UNCHANGED <<options, load, failed>>
FailLoad == rank' = 0 /\ failed' = TRUE /\ UNCHANGED <<options, load, k, config, given>>

\* Reading a file: it cannot be read, or has the key or not.
Outcomes == {"unreadable", "without", "with"}

\* Fault: godotenv.Overload is called.
overloadDotenvFile(old, new) == Over(new, old)

\* loadDotenvFile calls godotenv.Load, which leaves variables alone that are set.
loadDotenvFile(old, new) == Over(old, new)

\* loadDotenv, file after file; errors count only without ignoreDotenvErr.
loadDotenv ==
  /\ Loading("dotenv")
  /\ \E a, b \in Outcomes :
       LET A == IF a = "with" THEN loadDotenvFile(environ, ValueFrom("dotenv", 1, load)) ELSE environ
           B == IF b = "with" THEN loadDotenvFile(A, ValueFrom("dotenv", 2, load)) ELSE A
       IN IF ~options.ignore /\ a = "unreadable" THEN UNCHANGED environ /\ FailLoad
          ELSE IF ~options.ignore /\ b = "unreadable" THEN environ' = A /\ FailLoad
          ELSE environ' = B /\ UNCHANGED given /\ Advance(k)

\* loadFiles: the last one that has the key; a file that cannot be read ends the load.
loadFiles ==
  /\ Loading("file") /\ UNCHANGED environ
  /\ \E a, b \in Outcomes :
       LET v == IF b = "with" THEN ValueFrom("file", 2, load)
                ELSE IF a = "with" THEN ValueFrom("file", 1, load) ELSE NoValue
       IN IF "unreadable" \in {a, b} THEN FailLoad
          ELSE given' = [given EXCEPT !["file"] = v] /\ Advance(Over(v, k))

\* Fault: the environment gives only what is missing.
loadEnvMissing ==
  /\ Loading("env") /\ UNCHANGED environ
  /\ given' = [given EXCEPT !["env"] = environ] /\ Advance(Over(k, environ))

loadEnv ==
  /\ Loading("env") /\ UNCHANGED environ
  /\ given' = [given EXCEPT !["env"] = environ] /\ Advance(Over(environ, k))

loadArgs ==
  /\ Loading("args") /\ UNCHANGED environ
  /\ IF Clash(parseRawArgs) THEN FailLoad
     ELSE given' = [given EXCEPT !["args"] = argsValue] /\ Advance(Over(argsValue, k))

LoadNext == BeginLoad \/ loadDotenv \/ loadFiles \/ loadEnv \/ loadArgs

-----------------------------------------------------------------------------
(* Properties. *)

RankOf(src) == CHOOSE i \in 1..4 : options.priority[i] = src
Earlier(a, b) == RankOf(a) < RankOf(b)

\* A loaded configuration has the value of the last source, in the order of priority,
\* that has the key, and the default only if none has.  Dotenv files are no source of
\* their own in this: what they say counts as environment, so it overrides files even
\* where "dotenv" comes before "file", and counts in the load that reads it only if
\* "env" comes later.
PriorityObeyed ==
  load > 0 /\ rank = 0 /\ ~failed =>
    LET having == {s \in Sources : given[s] # NoValue}
    IN /\ having = {} => config = loadConfiguredDefaults
       /\ having # {} => \E s \in having : config = given[s] /\ \A r \in having : ~Earlier(s, r)
       /\ config.from = "dotenv" /\ config.load = load => Earlier("dotenv", "env")

\* What the process was started with is never replaced by a dotenv file, and neither is
\* what an earlier dotenv file, or an earlier load, has set: reloads do not see changes
\* of dotenv files.
EnvironmentStays == [][environ # NoValue => environ' = environ]_loadVars

\* Every flag before "--" gives one entry, and no argument after it gives any; a value
\* taken from the next argument is taken from a word.
ArgsParsedOnce ==
  LET ends == {i \in DOMAIN options.args : options.args[i] = End}
      flags == {i \in DOMAIN options.args : options.args[i].form \in Forms /\ \A e \in ends : i < e}
      entries == parseRawArgs
  IN /\ Len(entries) = Cardinality(flags)
     /\ \A i \in DOMAIN entries :
          LET t == options.args[entries[i].value] IN t = Word \/ (t.form \in Forms /\ t.name = entries[i].name)

\* What a load returns: the last say of each source, and every argument read once.
LoadExact == PriorityObeyed /\ ArgsParsedOnce
=============================================================================
