------------------------------- MODULE Flash -------------------------------
(***************************************************************************)
(* Flash messages: setSuccess and setError store a kind and a text in the  *)
(* session, the next page takes them out (consume).                        *)
(*                                                                         *)
(* Each access to the session is atomic and no two are together: requests  *)
(* of one browser run on several event loops.  setFieldErrors is called    *)
(* from nowhere, so consume never finds its two keys.                      *)
(***************************************************************************)
EXTENDS Naturals

CONSTANTS
    Null,
    Actors,         \* slots for requests of one browser
    MaxMessages     \* bounds the messages

Kinds == {"success", "error"}

VARIABLES
    flash_key, flash_message,   \* the session
    actor,                      \* actor[a]: the request in slot a
    messages,                   \* how many there were; a text is its number
    due                         \* history: what a page must show, see Over

vars == <<flash_key, flash_message, actor, messages, due>>

None == [kind |-> Null, text |-> Null]
Idle == [pc |-> "idle", mine |-> None, alone |-> TRUE]
At(a, p) == actor[a].pc = p
Busy == {a \in Actors : ~At(a, "idle")}

Init ==
    /\ flash_key = Null /\ flash_message = Null
    /\ actor = [a \in Actors |-> Idle]
    /\ messages = 0 /\ due = None

\* A request that meets another is not alone any more, nor is the other.
Enter(a, p, m) ==
    /\ At(a, "idle")
    /\ actor' = [b \in Actors |->
           IF b = a THEN [pc |-> p, mine |-> m, alone |-> Busy = {}]
           ELSE [actor[b] EXCEPT !.alone = FALSE]]

Goes(a, p) == actor' = [actor EXCEPT ![a].pc = p]

\* A handler succeeds, fails, throws into main's exception handler, or
\* RbacFilter refuses: each stores a message before it redirects.
Post(a) ==
    /\ messages < MaxMessages /\ messages' = messages + 1
    /\ \E k \in Kinds : Enter(a, "set key", [kind |-> k, text |-> messages'])
    /\ UNCHANGED <<flash_key, flash_message, due>>

SetKey(a) ==
    /\ At(a, "set key") /\ Goes(a, "set message")
    /\ flash_key' = actor[a].mine.kind
    /\ UNCHANGED <<flash_message, messages, due>>

SetMessage(a) ==
    /\ At(a, "set message") /\ Goes(a, "redirected")
    /\ flash_message' = actor[a].mine.text
    /\ UNCHANGED <<flash_key, messages, due>>

\* postLogout clears the session.
Logout(a) ==
    /\ Enter(a, "clear", None)
    /\ UNCHANGED <<flash_key, flash_message, messages, due>>

Clear(a) ==
    /\ At(a, "clear") /\ Goes(a, "redirected")
    /\ flash_key' = Null /\ flash_message' = Null
    /\ UNCHANGED <<messages, due>>

\* A page with the layout: injectFlash.
Page(a) ==
    /\ Enter(a, "get key", None)
    /\ UNCHANGED <<flash_key, flash_message, messages, due>>

GetKey(a) ==
    /\ At(a, "get key")
    /\ actor' = [actor EXCEPT ![a].pc = "get message", ![a].mine.kind = flash_key]
    /\ UNCHANGED <<flash_key, flash_message, messages, due>>

\* Without a key the text is not shown and nothing is erased.
GetMessage(a) ==
    /\ At(a, "get message")
    /\ actor' = [actor EXCEPT
           ![a].pc = IF actor[a].mine.kind = Null THEN "shown" ELSE "erase key",
           ![a].mine.text = IF actor[a].mine.kind = Null THEN Null ELSE flash_message]
    /\ UNCHANGED <<flash_key, flash_message, messages, due>>

\* Mutant: the key stays, as after a page that only looks.
EraseKeyForgotten(a) ==
    /\ At(a, "erase key") /\ Goes(a, "erase message")
    /\ UNCHANGED <<flash_key, flash_message, messages, due>>

EraseKey(a) ==
    /\ At(a, "erase key") /\ Goes(a, "erase message")
    /\ flash_key' = Null
    /\ UNCHANGED <<flash_message, messages, due>>

EraseMessage(a) ==
    /\ At(a, "erase message") /\ Goes(a, "shown")
    /\ flash_message' = Null
    /\ UNCHANGED <<flash_key, messages, due>>

\* What a page must show next: the message of a request that was alone, nothing
\* after a page that was, and whatever there is after requests that overlapped.
Over(a) ==
    /\ At(a, "redirected") \/ At(a, "shown")
    /\ actor' = [actor EXCEPT ![a] = Idle]
    /\ due' = IF ~actor[a].alone THEN [due EXCEPT !.kind = "any"]
              ELSE IF At(a, "shown") THEN None ELSE actor[a].mine
    /\ UNCHANGED <<flash_key, flash_message, messages>>

Next == \E a \in Actors :
    \/ Post(a) \/ SetKey(a) \/ SetMessage(a) \/ Logout(a) \/ Clear(a)
    \/ Page(a) \/ GetKey(a) \/ GetMessage(a) \/ EraseKey(a) \/ EraseMessage(a)
    \/ Over(a)

-----------------------------------------------------------------------------
Texts == 0..MaxMessages \cup {Null}

TypeOK ==
    /\ flash_key \in Kinds \cup {Null} /\ flash_message \in Texts
    /\ \A a \in Actors : actor[a].mine \in [kind : Kinds \cup {Null}, text : Texts]
    /\ messages \in 0..MaxMessages

\* A page that overlaps no other request of its browser shows the last message
\* that was stored, whole and under its kind, once; the requests that overlapped
\* before leave nothing that outlasts one such page.
PageShowsItsMessage ==
    \A a \in Actors :
        At(a, "shown") /\ actor[a].alone /\ due.kind # "any" => actor[a].mine = due
=============================================================================
