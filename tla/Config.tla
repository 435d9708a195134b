--------------------------------- MODULE Config ---------------------------------
(***************************************************************************)
(* config.Load: the process environment, the .env file that fills in what  *)
(* is not set there, and the defaults.  Three variables stand for the      *)
(* kinds there are: required (DATABASE_URL), required and long enough      *)
(* (JWT_SECRET), a number with a default (DB_MAX_CONNS).  A line of .env   *)
(* is what the parser makes of it; spelling (white space, quotes, the      *)
(* "export" prefix) is abstracted.                                         *)
(***************************************************************************)
EXTENDS Integers, SequencesExt

CONSTANTS
    Databases,      \* values of DATABASE_URL that name a database
    UNSET           \* the variable is not in the environment

Keys == {"DATABASE_URL", "JWT_SECRET", "DB_MAX_CONNS"}

\* "" is a variable that is set and empty, "ten" is not a number, and of
\* the secrets only "long" has 32 characters.
Values == Databases \cup {"", "short", "long", "ten", "0", "10"}

ASSUME UnsetAssumption == UNSET \notin Values /\ "" \notin Databases

Environment == [Keys -> Values \cup {UNSET}]

\* A line that is skipped (blank, a comment, no "=", no key), one that sets
\* a variable, one longer than the scanner's buffer.
Line == {<<"skip">>, <<"overlong">>} \cup ({"set"} \X Keys \X Values)

-----------------------------------------------------------------------------
(* loadDotEnv. *)

\* The scanner ends without a word at a line that is too long.
Scanned(file) ==
    IF \E i \in DOMAIN file : file[i][1] = "overlong"
    THEN SubSeq(file, 1, SelectInSeq(file, LAMBDA l : l[1] = "overlong") - 1)
    ELSE file

\* mutant: os.Getenv(key) == "" in place of os.LookupEnv.
Empty(env, key) == env[key] \in {UNSET, ""}
Unset(env, key) == env[key] = UNSET

SetEnv(env, line) ==
    IF line[1] = "set" /\ Unset(env, line[2])
    THEN [env EXCEPT ![line[2]] = line[3]]
    ELSE env

loadDotEnv(env, file) == FoldLeft(SetEnv, env, Scanned(file))

-----------------------------------------------------------------------------
(* Load. *)

\* os.Getenv does not tell an empty variable from none.
Getenv(env, key) == IF env[key] = UNSET THEN "" ELSE env[key]

\* Not a number, or nothing at all: the fallback.
getEnvInt32(env, key, fallback) ==
    CASE Getenv(env, key) = "0" -> 0
      [] Getenv(env, key) = "10" -> 10
      [] OTHER -> fallback

LoadFails(env) == Getenv(env, "DATABASE_URL") = "" \/ Getenv(env, "JWT_SECRET") # "long"

\* The configuration the program runs with; url is "" if Load fails.
Load(env, file) ==
    LET e == loadDotEnv(env, file)
    IN  [url |-> IF LoadFails(e) THEN "" ELSE Getenv(e, "DATABASE_URL"),
         maxConns |-> getEnvInt32(e, "DB_MAX_CONNS", 10)]

\* database.Connect refuses a pool without connections, and pings what is
\* no database in vain.
Connects(cfg) == cfg.url \in Databases /\ cfg.maxConns > 0
=============================================================================
