------------------------------- MODULE Catalogue -------------------------------
(***************************************************************************)
(* The product catalogue: cmd/seedproducts, which fills it from a file and *)
(* may be run again, by several people at once, with another environment;  *)
(* and the owner, who takes products off the list meanwhile.  What the     *)
(* shop does (ProductHandler.List and Get) is one SELECT each and leaves   *)
(* no trace.                                                               *)
(*                                                                         *)
(* Each INSERT is a transaction of its own.  It may fail (a lost           *)
(* connection, the 15 s all of them share are over), with or without       *)
(* having taken effect, and the program may be killed between two.         *)
(***************************************************************************)
EXTENDS Config, FiniteSets

CONSTANTS
    Seeders,        \* runs of cmd/seedproducts
    SKUs,           \* stock-keeping units
    Environments,   \* the environments the programs may be started in
    DotEnvs,        \* the .env files that may be in the working directory
    Files,          \* the product files: sequences of entries
    NONE            \* no database

ASSUME CatalogueAssumption ==
    /\ Environments \subseteq Environment /\ DotEnvs \subseteq Seq(Line)
    /\ NONE \notin Databases

Categories == {"ring", "bracelet"}      \* the others are like these two
Genders    == {"women"}                 \* and like this one

\* An entry of the file; "typo" is in no enum, a price below 0 fails its CHECK.
Entry == [sku: SKUs, category: Categories \cup {"typo"},
          gender: Genders \cup {"typo"}, price: {-1, 1}]

ASSUME FilesAssumption == Files \subseteq Seq(Entry)

Outcome == {"created", "exists", "invalid", "error"}

VARIABLES
    environ,        \* environ[p]: the environment seeder p is started in
    dotenv,         \* the .env file
    file,           \* file[p]: the entries p reads
    pc,             \* pc[p]: where main is
    target,         \* target[p]: the database p's pool is connected to
    report,         \* report[p]: what p did with each entry so far
    products        \* products[d]: the rows of database d's products table

inputs == <<environ, dotenv, file>>
vars   == <<environ, dotenv, file, pc, target, report, products>>

Row == [sku: SKUs, category: Categories, gender: Genders, price: Nat, by: Seeders,
        active: BOOLEAN]

TypeOK ==
    /\ environ \in [Seeders -> Environment]
    /\ dotenv \in Seq(Line)
    /\ file \in [Seeders -> Seq(Entry)]
    /\ pc \in [Seeders -> {"load", "insert", "done", "failed", "killed"}]
    /\ target \in [Seeders -> Databases \cup {NONE}]
    /\ report \in [Seeders -> Seq(Outcome)]
    /\ products \in [Databases -> SUBSET Row]

Init ==
    /\ environ \in [Seeders -> Environments]
    /\ dotenv \in DotEnvs
    /\ file \in [Seeders -> Files]
    /\ pc = [p \in Seeders |-> "load"]
    /\ target = [p \in Seeders |-> NONE]
    /\ report = [p \in Seeders |-> <<>>]
    /\ products = [d \in Databases |-> {}]

-----------------------------------------------------------------------------
(* cmd/seedproducts. *)

GoTo(p, l) == pc' = [pc EXCEPT ![p] = l]

\* An empty file ends the program before the configuration is looked at.
LoadConfig(p) ==
    /\ pc[p] = "load"
    /\ LET cfg == Load(environ[p], dotenv) IN
          IF file[p] # <<>> /\ Connects(cfg)
          THEN /\ target' = [target EXCEPT ![p] = cfg.url]
               /\ GoTo(p, "insert")
          ELSE /\ GoTo(p, IF file[p] = <<>> THEN "done" ELSE "failed")
               /\ UNCHANGED target
    /\ UNCHANGED <<inputs, report, products>>

Seeding(p) == pc[p] = "insert" /\ Len(report[p]) < Len(file[p])

\* The entry whose turn it is.
Current(p) == file[p][Len(report[p]) + 1]

Skip(p, outcome) == report' = [report EXCEPT ![p] = Append(@, outcome)]

\* JewelryCategory.Valid
ValidCategory(e) == e.category \in Categories

\* The columns' types and CHECKs.
NoPriceCheck(e) == e.category \in Categories /\ e.gender \in Genders     \* mutant
Accepted(e) == e.category \in Categories /\ e.gender \in Genders /\ e.price >= 0

Taken(d, sku) == \E row \in products[d] : row.sku = sku

RowOf(p, e) ==
    [sku |-> e.sku, category |-> e.category, gender |-> e.gender, price |-> e.price,
     by |-> p, active |-> TRUE]

InsertRow(p) ==
    products' = [products EXCEPT ![target[p]] = @ \cup {RowOf(p, Current(p))}]

SkipInvalid(p) ==
    /\ Seeding(p)
    /\ ~ValidCategory(Current(p))
    /\ Skip(p, "invalid")
    /\ UNCHANGED <<inputs, pc, target, products>>

\* The INSERT would succeed.
CanCreate(p) ==
    /\ Seeding(p)
    /\ ValidCategory(Current(p)) /\ Accepted(Current(p))
    /\ ~Taken(target[p], Current(p).sku)

Create(p) ==
    /\ CanCreate(p)
    /\ InsertRow(p)
    /\ Skip(p, "created")
    /\ UNCHANGED <<inputs, pc, target>>

\* mutant: ON CONFLICT (sku) DO UPDATE.
Upsert(p) ==
    /\ Seeding(p)
    /\ ValidCategory(Current(p)) /\ Accepted(Current(p))
    /\ Taken(target[p], Current(p).sku)
    /\ products' = [products EXCEPT ![target[p]] =
                       {row \in @ : row.sku # Current(p).sku} \cup {RowOf(p, Current(p))}]
    /\ Skip(p, "created")
    /\ UNCHANGED <<inputs, pc, target>>

\* The unique constraint on sku: ErrSKUTaken.
CreateTaken(p) ==
    /\ Seeding(p)
    /\ ValidCategory(Current(p)) /\ Accepted(Current(p))
    /\ Taken(target[p], Current(p).sku)
    /\ Skip(p, "exists")
    /\ UNCHANGED <<inputs, pc, target, products>>

\* The database refuses the row, or the INSERT fails, maybe after it took
\* effect; the program goes on to the next entry.
CreateFails(p) ==
    /\ Seeding(p)
    /\ ValidCategory(Current(p))
    /\ UNCHANGED products \/ (CanCreate(p) /\ InsertRow(p))
    /\ Skip(p, "error")
    /\ UNCHANGED <<inputs, pc, target>>

Done(p) ==
    /\ pc[p] = "insert" /\ ~Seeding(p)
    /\ GoTo(p, "done")
    /\ UNCHANGED <<inputs, target, report, products>>

\* The program is killed; the INSERT under way may take effect.
Killed(p) ==
    /\ pc[p] = "insert"
    /\ UNCHANGED products \/ (CanCreate(p) /\ InsertRow(p))
    /\ GoTo(p, "killed")
    /\ UNCHANGED <<inputs, target, report>>

-----------------------------------------------------------------------------
(* The owner takes a product off the list: an UPDATE of is_active.         *)

Deactivate(d, row) ==
    /\ products' = [products EXCEPT ![d] = (@ \ {row}) \cup {[row EXCEPT !.active = FALSE]}]
    /\ UNCHANGED <<inputs, pc, target, report>>

\* Every program has ended.
Finished ==
    /\ \A p \in Seeders : pc[p] \in {"done", "failed", "killed"}
    /\ UNCHANGED vars

Next ==
    \/ \E p \in Seeders :
          \/ LoadConfig(p)
          \/ SkipInvalid(p) \/ Create(p) \/ CreateTaken(p) \/ CreateFails(p)
          \/ Done(p) \/ Killed(p)
    \/ \E d \in Databases : \E row \in products[d] : Deactivate(d, row)
    \/ Finished

Spec == Init /\ [][Next]_vars

-----------------------------------------------------------------------------
(* What seeding guarantees. *)

RowsOf(d, sku) == {row \in products[d] : row.sku = sku}

\* Whoever runs the program, however often, at the same time or after one
\* that was cut short: what it says it created is there, once and as its
\* file has it, what it says is there is there, and a run without an error
\* leaves nothing of its file out ("Re-running is safe").
ReportIsTrue ==
    \A p \in Seeders : \A i \in DOMAIN report[p] :
        LET e == file[p][i]  rows == RowsOf(target[p], e.sku) IN
        /\ report[p][i] = "created" =>
              \E row \in rows : rows = {row} /\ row.by = p /\ row.category = e.category
        /\ report[p][i] = "exists" => Cardinality(rows) = 1
        /\ report[p][i] = "invalid" => ~ValidCategory(e)
        /\ pc[p] = "done" => Len(report[p]) = Len(file[p])

\* "The real environment always wins": products go to the database the
\* operator named, to the one of .env (its first word on the matter) only
\* where he named none, and nowhere if he set the variable to nothing.
AskedFor(p) ==
    LET given == environ[p]["DATABASE_URL"]
        lines == {i \in DOMAIN Scanned(dotenv) :
                     dotenv[i][1] = "set" /\ dotenv[i][2] = "DATABASE_URL"}
    IN  IF given # UNSET THEN {given}
        ELSE {dotenv[i][3] : i \in {j \in lines : \A k \in lines : j <= k}}

EnvironmentWins ==
    /\ \A p \in Seeders : target[p] # NONE => target[p] \in AskedFor(p)
    /\ \A d \in Databases : \A row \in products[d] : d \in AskedFor(row.by)

\* "Re-run confirmed as a no-op" (README.md), for what the owner did meanwhile
\* too: a product he took off the list does not come back, neither as the row
\* it was nor as another one, whoever seeds its SKU again or was half way
\* through the file when he did it.
OffTheList(d, sku) ==
    RowsOf(d, sku) # {} /\ \A row \in RowsOf(d, sku) : ~row.active

WithdrawnStaysOff ==
    [][\A d \in Databases, sku \in SKUs : OffTheList(d, sku) => OffTheList(d, sku)']_vars
=============================================================================
