----------------------------- MODULE MCProgress -----------------------------
(***************************************************************************)
(* What must happen in the end, part by part: requests to the accounts are *)
(* answered, the pages catch up with the settings row, a refusal of the    *)
(* rate limiter is lifted.  As in MCPanel the parts share no state, and a  *)
(* behaviour takes the steps of one, chosen at the start, with the         *)
(* fairness of its module.  The safety of the settings is checked along.   *)
(***************************************************************************)
EXTENDS SettingCache

CONSTANTS
    Ids, Batch,           \* one account with roles; several to remove at once
    Emails, Codes, Passwords, Otps, Statuses, Roles, OtpTtl, MaxClock,
    Calls, Limit, Window, MaxRestarts

VARIABLES
    part,
    users, usersRoles, given, handling, clock, issued, retired, held,
    count, ttl, call, expiring, lost, recent, restarts

Account == INSTANCE Accounts WITH req <- handling
Removal == INSTANCE Accounts WITH req <- handling, Ids <- Batch, Roles <- {}
Rate    == INSTANCE RateLimit

accountVars == <<users, usersRoles, given, handling, clock, issued, retired, held>>
rateVars    == <<count, ttl, call, expiring, lost, recent, restarts>>
allVars     == <<part, vars, accountVars, rateVars>>

AllInit ==
    /\ part \in {"accounts", "removals", "settings", "rates"}
    /\ Init /\ Rate!Init
    /\ IF part = "removals" THEN Removal!Init ELSE Account!Init
    /\ part # "settings" => row.theme = CHOOSE t \in Themes : TRUE

AllNext ==
    /\ UNCHANGED part
    /\ \/ /\ part = "accounts" /\ Account!Next
          /\ UNCHANGED <<vars, rateVars>>
       \/ /\ part = "removals" /\ Removal!Next
          /\ UNCHANGED <<vars, rateVars>>
       \/ /\ part = "settings" /\ Next
          /\ UNCHANGED <<accountVars, rateVars>>
       \/ /\ part = "rates" /\ Rate!Next
          /\ UNCHANGED <<vars, accountVars>>

\* The fairness of each module's FairSpec, which binds the part that steps.
AccountsFair ==
    \A r \in Requests : /\ WF_accountVars(part = "accounts" /\ Account!Advance(r))
                         /\ WF_accountVars(part = "removals" /\ Removal!Advance(r))

SettingsFair ==
    /\ WF_vars(part = "settings" /\ Tick)
    /\ \A r \in Requests : WF_vars(Answer(r))

RatesFair ==
    /\ WF_rateVars(part = "rates" /\ Rate!Tick)
    /\ WF_rateVars(Rate!ExpireArrives)
    /\ \A c \in Calls : WF_rateVars(Rate!Judge(c))

AllSpec == /\ AllInit /\ [][AllNext]_allVars
           /\ AccountsFair /\ SettingsFair /\ RatesFair

-----------------------------------------------------------------------------
\* Accounts: every request is answered.
RequestsFinish == Account!RequestsFinish
\* Rate limit: a refusal ends, unless the EXPIRE was lost.
LimitLifts == Rate!LimitLifts
=============================================================================
