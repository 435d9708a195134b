------------------------------ MODULE MCCatalogue ------------------------------
(***************************************************************************)
(* Instances of Catalogue for TLC.                                         *)
(***************************************************************************)
EXTENDS Catalogue

CONSTANTS db1, db2, p1, p2, x, y

MCDatabases == {db1, db2}
MCSeeders == {p1, p2}
MCSKUs == {x, y}

Env(url, secret, conns) ==
    [DATABASE_URL |-> url, JWT_SECRET |-> secret, DB_MAX_CONNS |-> conns]

\* Nothing given, everything given, an empty URL, a number that is none.
MCEnvironments ==
    {Env(UNSET, UNSET, UNSET), Env(db1, "long", "10"), Env("", "long", UNSET),
     Env(UNSET, "long", "ten")}

Secret == <<"set", "JWT_SECRET", "long">>
Url(d) == <<"set", "DATABASE_URL", d>>

\* No file, a short secret, a good one with db2 named before db1, one with a
\* pool of nothing and a line after which nothing is read.
MCDotEnvs ==
    {<<>>, <<<<"set", "JWT_SECRET", "short">>, Url(db2)>>,
     <<Secret, <<"skip">>, Url(db2), Url(db1)>>,
     <<Secret, Url(db2), <<"set", "DB_MAX_CONNS", "0">>, <<"overlong">>, Url(db1)>>}

Of(s, c, g, m) == [sku |-> s, category |-> c, gender |-> g, price |-> m]

\* One good file, one that repeats a SKU of it and has an entry for each check,
\* one the database refuses at once, none at all.
MCFiles ==
    {<<Of(x, "ring", "women", 1), Of(y, "bracelet", "women", 1)>>,
     <<Of(x, "bracelet", "women", 1), Of(x, "typo", "women", 1), Of(y, "ring", "women", -1)>>,
     <<Of(y, "ring", "typo", 1)>>,
     <<>>}
=============================================================================
