----------------------------- MODULE Bootstrap -----------------------------
(***************************************************************************)
(* From an installation to a server that serves: docker-entrypoint.sh,     *)
(* then main with AppConfig::loadAndValidate and, in development,          *)
(* autoMigrateAndSeed.  The process may be killed between any two steps    *)
(* and is started again over the files and the database it left.           *)
(*                                                                         *)
(* The secrets file is written line by line, config.json replaced by a     *)
(* rename, a migration is one transaction, and the seed is one statement   *)
(* after another.  The script runs without set -e: a line that fails is    *)
(* passed over, unless the script asks.  Of the rows seeded the module     *)
(* keeps the administrator and the link that gives him his role.           *)
(***************************************************************************)
EXTENDS Naturals

CONSTANTS
    Null,
    Migrations,      \* how many there are
    MaxBoots         \* bounds the starts

Secrets == {"SESSION_SECRET", "JWT_SECRET"}
Rows    == {"admin", "admin role"}

VARIABLES
    kind,        \* "container", "production" without one, or "development"
    given,       \* the secrets the environment brings
    tools,       \* development: dbmate and sqlite3 are installed
    pc,          \* where the start stands
    file,        \* .runtime-secrets: Null, or the secrets in it, Null if missing
    secrets,     \* the secrets of this start
    config,      \* config.json: "baked in" or "rewritten"
    schema,      \* migrations applied
    rows,        \* the seeded rows: "none", "seeded", or "edited" by an admin
    boots,
    ranWith,     \* history: the secrets servers have run with
    torn         \* history: a kill or a failed line left the file without a secret

vars == <<kind, given, tools, pc, file, secrets, config, schema, rows, boots, ranWith, torn>>

Empty == [s \in Secrets |-> Null]
Given == [s \in Secrets |-> IF s \in given THEN <<"given">> ELSE Null]
Ready == secrets["SESSION_SECRET"] # Null /\ secrets["JWT_SECRET"] # Null

Init ==
    /\ kind \in {"container", "production", "development"}
    /\ given \in SUBSET Secrets /\ tools \in BOOLEAN
    /\ pc = "down"
    /\ file = Null /\ secrets = Empty /\ config = "baked in"
    /\ schema = 0 /\ rows = [r \in Rows |-> "none"]
    /\ boots = 0 /\ ranWith = {} /\ torn = FALSE

\* Mutant: INSERT OR REPLACE.
InsertOrReplace(r) == "seeded"

InsertOrIgnore(r) == IF rows[r] = "none" THEN "seeded" ELSE rows[r]

Boot ==
    /\ pc = "down" /\ boots < MaxBoots /\ boots' = boots + 1
    /\ pc' = IF kind = "container" THEN "secrets" ELSE "validate"
    /\ secrets' = Given
    /\ UNCHANGED <<kind, given, tools, file, config, schema, rows, ranWith, torn>>

-----------------------------------------------------------------------------
(* docker-entrypoint.sh *)

Complete == pc = "secrets" /\ Ready /\ pc' = "config"

\* Mutant: the file is written anew at every start.
MissingAlways == TRUE

Missing == file = Null

\* The redirection creates the file, the two lines follow; where it cannot, for
\* there is no directory or no space, the script goes on.
Generate ==
    /\ pc = "secrets" /\ ~Ready /\ Missing
    /\ \/ pc' = "session line" /\ file' = Empty
       \/ pc' = "read" /\ UNCHANGED file
    /\ UNCHANGED torn

\* A random value: no two starts draw the same.
Drawn == <<"drawn", boots>>

\* openssl may fail, or the disk be full: the value is missing, and the script
\* goes on.
WriteLine(s) ==
    \E d \in {Drawn, Null} :
        /\ file' = [file EXCEPT ![s] = d]
        /\ torn' = (torn \/ d = Null)

WriteSession == pc = "session line" /\ pc' = "jwt line" /\ WriteLine("SESSION_SECRET")
WriteJwt     == pc = "jwt line" /\ pc' = "read" /\ WriteLine("JWT_SECRET")

\* Mutant: the file is read only by the start that wrote it.
FoundUnread == pc = "secrets" /\ ~Ready /\ ~Missing /\ pc' = "config"

Found == pc = "secrets" /\ ~Ready /\ ~Missing /\ pc' = "read"

\* A line that is not there, and a file that is not there, yield an empty value.
ReadSecrets ==
    /\ pc = "read" /\ pc' = "config"
    /\ secrets' = [s \in Secrets |-> IF s \in given THEN secrets[s]
                                    ELSE IF file = Null THEN Null ELSE file[s]]

\* jq writes beside the file, and its failure is fatal; mv puts it in place, and
\* whether it did is not asked.
Configure ==
    /\ pc = "config"
    /\ \/ pc' = "migrate" /\ config' \in {"rewritten", config}
       \/ pc' = "failed" /\ config' = config

\* Mutant: dbmate does not record what it applied.
ApplyAgain ==
    /\ pc = "migrate" /\ schema' = schema + 1
    /\ rows' = IF schema' < Migrations THEN rows ELSE [r \in Rows |-> InsertOrIgnore(r)]

\* dbmate up applies what is missing, one migration at a time; the last one
\* inserts the seeded rows, where no row has their key.
Apply ==
    /\ pc = "migrate" /\ schema < Migrations /\ schema' = schema + 1
    /\ rows' = IF schema' < Migrations THEN rows ELSE [r \in Rows |-> InsertOrIgnore(r)]

Migrated == pc = "migrate" /\ schema = Migrations /\ pc' = "seed"

\* An error or the timeout: fatal in the container, only logged in development.
MigrateFails == pc = "migrate" /\ pc' = IF kind = "container" THEN "failed" ELSE "listen"

-----------------------------------------------------------------------------
(* db/seeds/seed.sql, at every start *)

Seed(r, next) ==
    /\ rows' = [rows EXCEPT ![r] = InsertOrIgnore(r)]
    /\ pc' = next

AfterSeed == IF kind = "container" THEN "validate" ELSE "listen"

SeedAdmin == pc = "seed" /\ Seed("admin", "seed role")
SeedRole  == pc = "seed role" /\ Seed("admin role", AfterSeed)

\* A statement that fails is passed over, and the failure logged; without
\* sqlite3, or on another database, there is no seed.
SeedFails == \/ pc = "seed" /\ pc' \in {"seed role", AfterSeed}
             \/ pc = "seed role" /\ pc' = AfterSeed

-----------------------------------------------------------------------------
(* main *)

\* loadAndValidate: production does not start without its secrets, development
\* has defaults, then migrates if it has the tools.
Validate ==
    /\ pc = "validate"
    /\ IF kind = "development"
       THEN /\ secrets' = [s \in Secrets |-> IF secrets[s] = Null THEN <<"default">> ELSE secrets[s]]
            /\ pc' = IF tools THEN "migrate" ELSE "listen"
       ELSE /\ secrets' = secrets
            /\ pc' = IF Ready THEN "listen" ELSE "no secrets"

\* main's last step; a port in use is fatal.
Listen ==
    /\ pc = "listen"
    /\ \/ pc' = "serving" /\ ranWith' = ranWith \cup {secrets["JWT_SECRET"]}
       \/ pc' = "failed" /\ ranWith' = ranWith

\* SIGTERM, or the end of the process at any moment; after a failure, the
\* orchestrator's restart.
Kill ==
    /\ pc # "down" /\ pc' = "down"
    /\ secrets' = Empty
    /\ torn' = (torn \/ pc \in {"session line", "jwt line"})

\* While it serves, an admin changes the seeded rows or deletes them.
Change(r) ==
    /\ pc = "serving" /\ rows[r] # "none"
    /\ rows' = [rows EXCEPT ![r] = "edited"]

\* The account, his role, or both: foreign keys cascade where they are enforced.
Delete(gone) ==
    /\ pc = "serving" /\ \E r \in gone : rows[r] # "none"
    /\ rows' = [r \in Rows |-> IF r \in gone THEN "none" ELSE rows[r]]

Next ==
    \/ Boot
    \/ /\ Complete \/ Found \/ MigrateFails \/ SeedFails \/ Migrated
       /\ UNCHANGED <<kind, given, tools, file, secrets, config, schema, rows, boots, ranWith, torn>>
    \/ /\ Generate \/ WriteSession \/ WriteJwt
       /\ UNCHANGED <<kind, given, tools, secrets, config, schema, rows, boots, ranWith>>
    \/ /\ ReadSecrets \/ Validate
       /\ UNCHANGED <<kind, given, tools, file, config, schema, rows, boots, ranWith, torn>>
    \/ /\ Configure
       /\ UNCHANGED <<kind, given, tools, file, secrets, schema, rows, boots, ranWith, torn>>
    \/ /\ Apply
       /\ UNCHANGED <<kind, given, tools, pc, file, secrets, config, boots, ranWith, torn>>
    \/ /\ SeedAdmin \/ SeedRole
       /\ UNCHANGED <<kind, given, tools, file, secrets, config, schema, boots, ranWith, torn>>
    \/ /\ Listen
       /\ UNCHANGED <<kind, given, tools, file, secrets, config, schema, rows, boots, torn>>
    \/ /\ Kill
       /\ UNCHANGED <<kind, given, tools, file, config, schema, rows, boots, ranWith>>
    \/ /\ (\E r \in Rows : Change(r)) \/ (\E gone \in SUBSET Rows \ {{}} : Delete(gone))
       /\ UNCHANGED <<kind, given, tools, pc, file, secrets, config, schema, boots, ranWith, torn>>

-----------------------------------------------------------------------------
Values == {Null, <<"given">>, <<"default">>} \cup {<<"drawn", b>> : b \in 1..MaxBoots}

TypeOK ==
    /\ file = Null \/ file \in [Secrets -> Values]
    /\ secrets \in [Secrets -> Values]
    /\ config \in {"baked in", "rewritten"} /\ schema \in 0..Migrations
    /\ rows \in [Rows -> {"none", "seeded", "edited"}] /\ boots \in 0..MaxBoots

\* Sessions survive a restart: whatever is killed when, no two servers of an
\* installation run with different JWT secrets.
SecretIsStable == \A s, t \in ranWith : s = t

\* Whichever starts failed or were killed before, a container never serves on a
\* schema half migrated or without its secrets; and it lacks a secret only where
\* its file could not be created, or was once left without one, by a kill or by
\* a line that failed while it was written, which no later start repairs
\* (docker-entrypoint.sh:34-50, 206-213; AppConfig.h, loadAndValidate).
StartsAreComplete ==
    kind = "container" =>
        /\ pc = "serving" => schema = Migrations /\ Ready
        /\ pc = "no secrets" => torn \/ file = Null

\* A start adds the rows that are missing and changes none that exist: the
\* administrator's new password is not reset by the next deployment.
BootKeepsRows ==
    [][pc # "serving" => \A r \in Rows : rows[r] # "none" => rows'[r] = rows[r]]_rows
=============================================================================
