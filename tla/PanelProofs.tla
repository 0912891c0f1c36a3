---------------------------- MODULE PanelProofs ----------------------------
(***************************************************************************)
(* Proofs about the parts of the panel that answer a browser, for any      *)
(* number of sessions, requests and rows: Csrf, Flash, Listing and         *)
(* RateLimit; and with the parts of RoutesProofs and FilesProofs, that     *)
(* every variable of all nine keeps its type.                              *)
(***************************************************************************)
EXTENDS RoutesProofs, FilesProofs, FiniteSets, FiniteSetTheorems

-----------------------------------------------------------------------------
(* A step of the panel is a step of one part, and the others stand still. *)

LEMMA TokenPart == [Next]_vars => [Token!Next]_tokenVars
<1>1. CASE UNCHANGED vars
  BY <1>1 DEF vars
<1>2. CASE TokenSteps
  BY <1>2 DEF TokenSteps
<1>3. CASE Next /\ ~TokenSteps
  BY <1>3 DEF Next, RouteSteps, ListsSteps, UploadSteps, TemplateSteps, RateSteps,
              MessageSteps, BodySteps, StartSteps
<1> QED  BY <1>1, <1>2, <1>3

-----------------------------------------------------------------------------
(* Csrf *)

Moment == [session : Sessions \cup {Null}, address : Addresses, hour : Nat]

\* The token generateToken makes at a moment.
TokenOf(m) ==
    IF m.session # Null THEN Token!hmacCsrfToken(m.session)
    ELSE Token!loginCsrfToken(m.address, m.hour)

\* A form opened by a GET carries the token of the moment it was opened in; one
\* that was sent tells whether that token answered to the moment of sending.
TabSound ==
    \/ tab.pc = "blank"
    \/ /\ tab.pc = "open"
       /\ tab.since \in Moment /\ tab.since.hour <= hour
       /\ \/ tab.by = "GET" /\ tab.token = TokenOf(tab.since)
          \/ tab.by = "POST" /\ tab.token = Null
    \/ /\ tab.pc \in {"accepted", "refused"}
       /\ tab.pc = "accepted" => tab.since.session = tab.sent.session
       /\ Token!Honest /\ tab.by = "GET" => tab.pc = "accepted"

TokenInv ==
    /\ cookie \in Sessions \cup {Null} /\ expired \in BOOLEAN /\ begun \subseteq Sessions
    /\ address \in Addresses /\ hour \in 1..MaxHour
    /\ TabSound

LEMMA TokenInit == Token!Init => TokenInv
<1> SUFFICES ASSUME Token!Init PROVE TokenInv
  OBVIOUS
<1>1. tab.pc = "blank"
  BY DEF Token!Init, Token!Blank
<1>2. hour \in 1..MaxHour
  BY HoursAssumption DEF Token!Init
<1> QED  BY <1>1, <1>2 DEF Token!Init, TokenInv, TabSound

LEMMA NowMoment ==
    ASSUME TokenInv
    PROVE  Token!Now \in Moment /\ Token!Now.hour = hour /\ Token!Now.session = Token!Session
BY DEF TokenInv, Token!Now, Moment, Token!Session

LEMMA OpenStep == ASSUME TokenInv, Token!Open PROVE TokenInv'
<1>1. Token!generateToken = TokenOf(Token!Now)
  BY DEF Token!generateToken, TokenOf, Token!Now
<1>2. tab' = [pc |-> "open", token |-> TokenOf(Token!Now), since |-> Token!Now, by |-> "GET"]
      /\ UNCHANGED <<cookie, expired, begun, address, hour>>
  BY <1>1 DEF Token!Open
<1>3. tab'.since = Token!Now /\ tab'.token = TokenOf(tab'.since) /\ tab'.pc = "open" /\ tab'.by = "GET"
  BY <1>2
<1>4. TabSound'
  BY <1>2, <1>3, NowMoment DEF TabSound, TokenInv
<1> QED  BY <1>2, <1>4 DEF TokenInv

LEMMA LoginFailsStep == ASSUME TokenInv, Token!LoginFails PROVE TokenInv'
<1>1. tab' = [pc |-> "open", token |-> Null, since |-> Token!Now, by |-> "POST"]
      /\ UNCHANGED <<cookie, expired, begun, address, hour>>
  BY DEF Token!LoginFails
<1>2. TabSound'
  BY <1>1, NowMoment DEF TabSound, TokenInv
<1> QED  BY <1>1, <1>2 DEF TokenInv

\* What doFilter accepts of a form opened at one moment and sent at another.
LEMMA AcceptsByMoment ==
    ASSUME TokenInv, tab.pc = "open"
    PROVE  /\ Token!Accepts(tab.token) => tab.since.session = Token!Session
           /\ tab.by = "GET" /\ tab.since.session = Token!Session
              /\ (Token!Session = Null => tab.since.address = address /\ hour <= tab.since.hour + 1)
              => Token!Accepts(tab.token)
<1>1. tab.since \in Moment /\ tab.since.hour <= hour /\ hour \in Nat /\ address \in Addresses
      /\ hour - 1 \in Nat
  BY HoursAssumption DEF TokenInv, TabSound
<1>2. Token!Session \in Sessions \cup {Null}
  BY DEF TokenInv, Token!Session
<1>3. CASE tab.by = "GET" /\ tab.token = TokenOf(tab.since)
  BY <1>1, <1>2, <1>3 DEF Moment, TokenOf, Token!Accepts, Token!Previous,
     Token!hmacCsrfToken, Token!loginCsrfToken
<1>4. CASE tab.by = "POST" /\ tab.token = Null
  <2>1. ~Token!Accepts(Null)
    BY <1>1, <1>2, TokenAssumption DEF Token!Accepts, Token!Previous,
       Token!hmacCsrfToken, Token!loginCsrfToken
  <2> QED  BY <1>4, <2>1
<1> QED  BY <1>3, <1>4 DEF TokenInv, TabSound

LEMMA SubmitStep == ASSUME TokenInv, Token!Submit PROVE TokenInv'
<1> DEFINE ok == Token!Accepts(tab.token)
<1>1. /\ tab.pc = "open"
      /\ tab' = [pc |-> IF ok THEN "accepted" ELSE "refused",
                 since |-> tab.since, by |-> tab.by, sent |-> Token!Now]
      /\ UNCHANGED <<cookie, expired, begun, address, hour>>
  BY DEF Token!Submit
<1>2. /\ ok => tab.since.session = Token!Session
      /\ tab.by = "GET" /\ tab.since.session = Token!Session
         /\ (Token!Session = Null => tab.since.address = address /\ hour <= tab.since.hour + 1)
         => ok
  BY <1>1, AcceptsByMoment
<1> HIDE DEF ok
<1>3. /\ tab'.pc = (IF ok THEN "accepted" ELSE "refused") /\ tab'.since = tab.since
      /\ tab'.by = tab.by /\ tab'.sent = Token!Now
  BY <1>1
<1>4. Token!Now = [session |-> Token!Session, address |-> address, hour |-> hour]
  BY DEF Token!Now
<1>5. Token!Honest' <=>
        /\ tab.since.session = Token!Session
        /\ tab.since.session = Null => tab.since.address = address /\ hour <= tab.since.hour + 1
  BY <1>3, <1>4 DEF Token!Honest
<1>6. TabSound'
  BY <1>2, <1>3, <1>4, <1>5 DEF TabSound
<1> QED  BY <1>1, <1>6 DEF TokenInv

\* The browser's session, the hour and the address change under an open tab.
LEMMA OtherTokenSteps ==
    ASSUME TokenInv,
           \/ Token!SignIn \/ Token!SignOut \/ Token!Expire \/ Token!Hour \/ Token!Move
           \/ UNCHANGED tokenVars
    PROVE  TokenInv'
<1>1. tab' = tab /\ hour' \in 1..MaxHour /\ hour <= hour'
  BY HoursAssumption
     DEF TokenInv, Token!SignIn, Token!SignOut, Token!Expire, Token!Hour, Token!Move, tokenVars
<1>2. tab.pc = "open" => tab.since \in Moment /\ tab.since.hour <= hour'
  BY <1>1 DEF TokenInv, TabSound, Moment
<1>3. TabSound'
  BY <1>1, <1>2 DEF TokenInv, TabSound, Token!Honest
<1>4. /\ cookie' \in Sessions \cup {Null} /\ expired' \in BOOLEAN /\ begun' \subseteq Sessions
      /\ address' \in Addresses
  BY DEF TokenInv, Token!SignIn, Token!SignOut, Token!Expire, Token!Hour, Token!Move, tokenVars
<1> QED  BY <1>1, <1>3, <1>4 DEF TokenInv

LEMMA TokenAlways == Spec => []TokenInv
<1>1. Init => TokenInv
  BY TokenInit DEF Init
<1>2. TokenInv /\ [Token!Next]_tokenVars => TokenInv'
  BY OpenStep, SubmitStep, LoginFailsStep, OtherTokenSteps DEF Token!Next
<1>3. TokenInv /\ [Next]_vars => TokenInv'
  BY <1>2, TokenPart
<1> QED  BY <1>1, <1>3, PTL DEF Spec

\* Nobody loses a form without cause: a page opened by a GET passes from the
\* same session, or without one from the same address within the hour after,
\* for any sessions, hours and other tabs (CsrfFilter.cc, generateToken and
\* doFilter).
THEOREM HonestFormsAlwaysPass == Spec => []HonestFormsPass
<1>1. TokenInv => HonestFormsPass
  BY DEF TokenInv, TabSound, HonestFormsPass, Token!HonestFormsPass, Token!Submitted
<1> QED  BY <1>1, TokenAlways, PTL

\* A form opened in one session never passes in another, nor a visitor's form
\* in a session (CsrfFilter.cc, doFilter).
THEOREM SessionsStayApart == Spec => []SessionsDoNotMix
<1>1. TokenInv => SessionsDoNotMix
  BY DEF TokenInv, TabSound, SessionsDoNotMix, Token!SessionsDoNotMix, Token!Submitted
<1> QED  BY <1>1, TokenAlways, PTL

-----------------------------------------------------------------------------
(* Flash *)

LEMMA MessagePart == [Next]_vars => [Message!Next]_messageVars
<1>1. CASE UNCHANGED vars
  BY <1>1 DEF vars
<1>2. CASE MessageSteps
  BY <1>2 DEF MessageSteps
<1>3. CASE Next /\ ~MessageSteps
  BY <1>3 DEF Next, RouteSteps, ListsSteps, UploadSteps, TemplateSteps, RateSteps,
              TokenSteps, BodySteps, StartSteps
<1> QED  BY <1>1, <1>2, <1>3

Notes == [kind : Message!Kinds \cup {Null}, text : Message!Texts]

Pages == {"get key", "get message", "erase key", "erase message", "shown"}

MessageTypes ==
    /\ flash_key \in Message!Kinds \cup {Null} /\ flash_message \in Message!Texts
    /\ due \in [kind : Message!Kinds \cup {Null, "any"}, text : Message!Texts]
    /\ actor \in [Actors -> [mine : Notes, alone : BOOLEAN,
                             pc : {"idle", "set key", "set message", "redirected", "clear"}
                                    \cup Pages]]

\* The session holds this message, and nothing else under a kind.
Holds(note) == flash_key = note.kind /\ (note.kind # Null => flash_message = note.text)

Blank == [kind |-> Null, text |-> Null]

\* What the session holds when the request that is alone stands at a step.
Standing(a) ==
    LET mine == a.mine IN
    /\ a.pc \in {"set key", "set message"} => mine.kind \in Message!Kinds
    /\ a.pc = "set message" => flash_key = mine.kind
    /\ a.pc = "redirected" => Holds(mine)
    /\ a.pc \in {"redirected", "clear", "get key"} /\ mine.kind = Null => mine = Blank
    /\ a.pc \in {"clear", "get key"} => mine.kind = Null
    /\ a.pc = "get message" => mine.kind = flash_key
    /\ a.pc \in {"erase message", "shown"} => flash_key = Null
    /\ due.kind # "any" =>
          /\ a.pc \in {"get key", "get message"} => Holds(due)
          /\ a.pc \in {"erase key", "erase message", "shown"} => mine = due

\* A request that is alone meets no other; while there is none, the session
\* holds what the next page must show.
MessageInv ==
    /\ MessageTypes /\ messages \in 0..MaxMessages
    /\ due.kind = Null => due = Blank
    /\ \A a \in Actors : actor[a].pc # "idle" /\ actor[a].alone =>
           /\ \A b \in Actors \ {a} : actor[b].pc = "idle"
           /\ Standing(actor[a])
    /\ (\A a \in Actors : actor[a].pc = "idle") /\ due.kind # "any" => Holds(due)

Browsing == [mine : Notes, alone : BOOLEAN,
             pc : {"idle", "set key", "set message", "redirected", "clear"} \cup Pages]

LEMMA BlankKind == Blank.kind = Null /\ Blank.text = Null
BY DEF Blank

LEMMA MessageInit == Message!Init => MessageInv
<1> SUFFICES ASSUME Message!Init PROVE MessageInv
  OBVIOUS
<1>1. Null \in Message!Texts /\ Message!None = Blank /\ Blank \in Notes
      /\ Blank \in [kind : Message!Kinds \cup {Null, "any"}, text : Message!Texts]
  BY DEF Message!Texts, Message!None, Blank, Notes
<1>2. Message!Idle \in Browsing /\ Message!Idle.pc = "idle"
  BY <1>1 DEF Message!Idle, Browsing
<1>3. flash_key = Null /\ flash_message = Null /\ due = Blank /\ due.kind = Null
      /\ actor = [a \in Actors |-> Message!Idle]
  BY <1>1 DEF Message!Init, Blank
<1>5. messages \in 0..MaxMessages
  BY MessageAssumption DEF Message!Init
<1>4. MessageTypes
  BY <1>1, <1>2, <1>3 DEF MessageTypes, Browsing
<1> QED  BY <1>2, <1>3, <1>4, <1>5 DEF MessageInv, Holds

\* A request under way takes a step, and what it meets is as it must be.
LEMMA Progress ==
    ASSUME MessageInv, NEW a \in Actors, NEW j \in Browsing, actor' = [actor EXCEPT ![a] = j],
           actor[a].pc # "idle", j.pc # "idle", j.alone = actor[a].alone,
           flash_key' \in Message!Kinds \cup {Null}, flash_message' \in Message!Texts,
           UNCHANGED <<due, messages>>, actor[a].alone => Standing(j)'
    PROVE  MessageInv'
<1>1. /\ actor' \in [Actors -> Browsing] /\ actor'[a] = j
      /\ \A b \in Actors \ {a} : actor'[b] = actor[b]
  BY DEF MessageInv, MessageTypes, Browsing
<1>2. MessageTypes'
  BY <1>1 DEF MessageInv, MessageTypes, Browsing
<1>3. ASSUME NEW c \in Actors, actor'[c].pc # "idle", actor'[c].alone
      PROVE  (\A b \in Actors \ {c} : actor'[b].pc = "idle") /\ Standing(actor[c])'
  <2>1. c = a
    BY <1>1, <1>3 DEF MessageInv
  <2>2. actor[a].alone /\ actor'[c] = j
    BY <1>1, <1>3, <2>1
  <2> QED  BY <1>1, <2>1, <2>2 DEF MessageInv, Standing
<1>4. (due.kind = Null => due = Blank)'
  BY DEF MessageInv, Blank
<1>5. ~(\A b \in Actors : actor'[b].pc = "idle")
  BY <1>1
<1> QED  BY <1>2, <1>3, <1>4, <1>5 DEF MessageInv

\* A request comes: alone, it finds the session as it must be.
LEMMA EnterStep ==
    ASSUME MessageInv, NEW a \in Actors,
           Message!Post(a) \/ Message!Logout(a) \/ Message!Page(a)
    PROVE  MessageInv'
<1>1. messages' \in 0..MaxMessages /\ messages' \in Message!Texts
  <2>1. messages \in 0..MaxMessages /\ MaxMessages \in Nat
    BY MessageAssumption DEF MessageInv
  <2>2. messages' = messages \/ (messages < MaxMessages /\ messages' = messages + 1)
    BY DEF Message!Post, Message!Logout, Message!Page
  <2>3. messages' \in 0..MaxMessages
    BY <2>1, <2>2
  <2> QED  BY <2>3 DEF Message!Texts
<1>2. Blank \in Notes /\ Message!None = Blank
  BY DEF Blank, Notes, Message!Texts, Message!None
<1>3. PICK p \in {"set key", "clear", "get key"}, m \in Notes :
          /\ Message!Enter(a, p, m) /\ UNCHANGED <<flash_key, flash_message, due>>
          /\ p = "set key" => m.kind \in Message!Kinds
          /\ p # "set key" => m = Blank
  <2>1. CASE Message!Post(a)
    <3>1. PICK k \in Message!Kinds : Message!Enter(a, "set key", [kind |-> k, text |-> messages'])
                                   /\ UNCHANGED <<flash_key, flash_message, due>>
      BY <2>1 DEF Message!Post
    <3>2. [kind |-> k, text |-> messages'] \in Notes
      BY <1>1 DEF Notes
    <3> QED  BY <3>1, <3>2
  <2>2. CASE Message!Logout(a) \/ Message!Page(a)
    BY <1>2, <2>2 DEF Message!Logout, Message!Page
  <2> QED  BY <2>1, <2>2
<1>4. PICK free \in BOOLEAN : free <=> Message!Busy = {}
  OBVIOUS
<1>5. free => \A b \in Actors : actor[b].pc = "idle"
  BY <1>4 DEF Message!Busy, Message!At
<1>6. PICK j \in Browsing :
          /\ j.pc = p /\ j.mine = m /\ j.alone = free
          /\ actor' = [b \in Actors |-> IF b = a THEN j ELSE [actor[b] EXCEPT !.alone = FALSE]]
  <2>1. [pc |-> p, mine |-> m, alone |-> free] \in Browsing
    BY <1>3 DEF Browsing, Pages
  <2>2. free = (Message!Busy = {})
    BY <1>4
  <2> QED  BY <1>3, <2>1, <2>2 DEF Message!Enter
<1>7. /\ actor' \in [Actors -> Browsing] /\ actor'[a] = j
      /\ \A b \in Actors \ {a} : actor'[b].pc = actor[b].pc /\ ~actor'[b].alone
  <2>1. actor \in [Actors -> Browsing]
    BY DEF MessageInv, MessageTypes, Browsing
  <2>2. \A b \in Actors : [actor[b] EXCEPT !.alone = FALSE] \in Browsing
                        /\ [actor[b] EXCEPT !.alone = FALSE].pc = actor[b].pc
                        /\ ~[actor[b] EXCEPT !.alone = FALSE].alone
    BY <2>1 DEF Browsing
  <2> QED  BY <1>6, <2>2
<1>8. MessageTypes'
  BY <1>3, <1>7 DEF MessageInv, MessageTypes, Browsing
<1>9. ASSUME NEW c \in Actors, actor'[c].pc # "idle", actor'[c].alone
      PROVE  (\A b \in Actors \ {c} : actor'[b].pc = "idle") /\ Standing(actor[c])'
  <2>1. c = a /\ free /\ actor'[c] = j
    BY <1>6, <1>7, <1>9
  <2>2. \A b \in Actors : actor[b].pc = "idle"
    BY <1>5, <2>1
  <2>3. m.kind = Null => m = Blank
    BY <1>3, MessageAssumption
  <2>4. due.kind # "any" => Holds(due)
    BY <2>2 DEF MessageInv
  <2>5. p # "set key" => m.kind = Null
    BY <1>3, BlankKind
  <2>6. Standing(j)'
    BY <1>3, <1>6, <2>3, <2>4, <2>5 DEF Standing, Holds
  <2> QED  BY <1>7, <2>1, <2>2, <2>6 DEF Standing
<1> QED  BY <1>1, <1>3, <1>6, <1>7, <1>8, <1>9 DEF MessageInv, Blank

LEMMA SetStep ==
    ASSUME MessageInv, NEW a \in Actors, Message!SetKey(a) \/ Message!SetMessage(a)
    PROVE  MessageInv'
<1>1. actor \in [Actors -> Browsing] /\ actor[a] \in Browsing
  BY DEF MessageInv, MessageTypes, Browsing
<1>2. actor[a].pc \in {"set key", "set message"}
      /\ (actor[a].alone => Standing(actor[a]))
  BY DEF MessageInv, Message!SetKey, Message!SetMessage, Message!At
<1>3. PICK j \in Browsing :
          /\ actor' = [actor EXCEPT ![a] = j]
          /\ j.mine = actor[a].mine /\ j.alone = actor[a].alone
          /\ j.pc = IF actor[a].pc = "set key" THEN "set message" ELSE "redirected"
  <2> DEFINE n(q) == [actor[a] EXCEPT !.pc = q]
  <2>1. \A q \in {"set message", "redirected"} :
            n(q) \in Browsing /\ n(q).pc = q /\ n(q).mine = actor[a].mine
            /\ n(q).alone = actor[a].alone
    BY <1>1 DEF Browsing
  <2>2. actor' = [actor EXCEPT ![a] = n(IF actor[a].pc = "set key" THEN "set message"
                                         ELSE "redirected")]
    BY DEF Message!SetKey, Message!SetMessage, Message!At, Message!Goes
  <2> HIDE DEF n
  <2> QED  BY <1>2, <2>1, <2>2
<1>4. actor[a].mine \in Notes
  BY <1>1 DEF Browsing
<1>5. UNCHANGED <<due, messages>>
      /\ IF actor[a].pc = "set key"
         THEN flash_key' = actor[a].mine.kind /\ flash_message' = flash_message
         ELSE flash_message' = actor[a].mine.text /\ flash_key' = flash_key
  BY DEF Message!SetKey, Message!SetMessage, Message!At
<1>6. flash_key' \in Message!Kinds \cup {Null} /\ flash_message' \in Message!Texts
  BY <1>4, <1>5 DEF Notes, MessageInv, MessageTypes
<1>7. actor[a].alone => Standing(j)'
  BY <1>2, <1>3, <1>5, MessageAssumption DEF Standing, Holds
<1> QED  BY <1>2, <1>3, <1>5, <1>6, <1>7, Progress

LEMMA ClearStep == ASSUME MessageInv, NEW a \in Actors, Message!Clear(a) PROVE MessageInv'
<1>1. actor \in [Actors -> Browsing] /\ actor[a] \in Browsing
  BY DEF MessageInv, MessageTypes, Browsing
<1>2. actor[a].pc = "clear" /\ (actor[a].alone => Standing(actor[a]))
  BY DEF MessageInv, Message!Clear, Message!At
<1>3. PICK j \in Browsing :
          /\ actor' = [actor EXCEPT ![a] = j] /\ j.pc = "redirected"
          /\ j.mine = actor[a].mine /\ j.alone = actor[a].alone
  <2> DEFINE n == [actor[a] EXCEPT !.pc = "redirected"]
  <2>1. n \in Browsing /\ n.pc = "redirected" /\ n.mine = actor[a].mine /\ n.alone = actor[a].alone
    BY <1>1 DEF Browsing
  <2>2. actor' = [actor EXCEPT ![a] = n]
    BY DEF Message!Clear, Message!Goes
  <2> QED  BY <2>1, <2>2
<1>4. flash_key' = Null /\ flash_message' = Null /\ UNCHANGED <<due, messages>>
  BY DEF Message!Clear
<1>5. actor[a].alone => Standing(j)'
  BY <1>2, <1>3, <1>4 DEF Standing, Holds
<1>6. flash_key' \in Message!Kinds \cup {Null} /\ flash_message' \in Message!Texts
  BY <1>4 DEF Message!Texts
<1> QED  BY <1>2, <1>3, <1>4, <1>5, <1>6, Progress

\* consume takes the key, then the text; without a key it takes nothing.
LEMMA GetStep ==
    ASSUME MessageInv, NEW a \in Actors, Message!GetKey(a) \/ Message!GetMessage(a)
    PROVE  MessageInv'
<1>1. actor \in [Actors -> Browsing] /\ actor[a] \in Browsing
      /\ flash_key \in Message!Kinds \cup {Null} /\ flash_message \in Message!Texts
      /\ due \in [kind : Message!Kinds \cup {Null, "any"}, text : Message!Texts]
      /\ (due.kind = Null => due = Blank)
  BY DEF MessageInv, MessageTypes, Browsing
<1>2. actor[a].pc \in {"get key", "get message"} /\ (actor[a].alone => Standing(actor[a]))
      /\ UNCHANGED <<flash_key, flash_message, due, messages>>
  BY DEF MessageInv, Message!GetKey, Message!GetMessage, Message!At
<1>3. CASE actor[a].pc = "get key"
  <2>1. PICK j \in Browsing :
            /\ actor' = [actor EXCEPT ![a] = j] /\ j.pc = "get message"
            /\ j.mine.kind = flash_key /\ j.alone = actor[a].alone
    <3> DEFINE n == [actor[a] EXCEPT !.pc = "get message", !.mine.kind = flash_key]
    <3>1. n \in Browsing /\ n.pc = "get message" /\ n.mine.kind = flash_key
          /\ n.alone = actor[a].alone
      BY <1>1 DEF Browsing, Notes, Pages
    <3>2. actor' = [actor EXCEPT ![a] = n]
      BY <1>1, <1>3 DEF Message!GetKey, Message!GetMessage, Message!At
    <3> QED  BY <3>1, <3>2
  <2>2. actor[a].alone => Standing(j)'
    BY <1>2, <1>3, <2>1 DEF Standing, Holds
  <2> QED  BY <1>1, <1>2, <2>1, <2>2, Progress
<1>4. CASE actor[a].pc = "get message"
  <2>1. PICK j \in Browsing :
            /\ actor' = [actor EXCEPT ![a] = j] /\ j.alone = actor[a].alone
            /\ j.pc = IF actor[a].mine.kind = Null THEN "shown" ELSE "erase key"
            /\ j.mine.kind = actor[a].mine.kind
            /\ j.mine.text = IF actor[a].mine.kind = Null THEN Null ELSE flash_message
    <3> DEFINE k == actor[a].mine.kind
               n == [actor[a] EXCEPT !.pc = IF k = Null THEN "shown" ELSE "erase key",
                                     !.mine.text = IF k = Null THEN Null ELSE flash_message]
    <3>1. n \in Browsing /\ n.pc = (IF k = Null THEN "shown" ELSE "erase key")
          /\ n.mine.kind = k /\ n.alone = actor[a].alone
          /\ n.mine.text = (IF k = Null THEN Null ELSE flash_message)
      BY <1>1 DEF Browsing, Notes, Pages, Message!Texts
    <3>2. actor' = [actor EXCEPT ![a] = n]
      BY <1>1, <1>4 DEF Message!GetKey, Message!GetMessage, Message!At
    <3> QED  BY <3>1, <3>2
  <2>2. ASSUME actor[a].alone, due.kind # "any" PROVE j.mine = due
    <3>1. actor[a].mine.kind = flash_key /\ Holds(due)
      BY <1>2, <1>4, <2>2 DEF Standing
    <3>2. j.mine.kind = due.kind /\ j.mine.text = due.text
      BY <1>1, <2>1, <3>1, BlankKind DEF Holds
    <3>3. j.mine = [kind |-> j.mine.kind, text |-> j.mine.text]
          /\ due = [kind |-> due.kind, text |-> due.text]
      BY <1>1 DEF Browsing, Notes
    <3> QED  BY <3>2, <3>3
  <2>3. actor[a].alone => Standing(j)'
    <3>1. actor[a].alone => actor[a].mine.kind = flash_key
      BY <1>2, <1>4 DEF Standing
    <3>2. j.pc \in {"shown", "erase key"} /\ (j.pc = "shown" => actor[a].mine.kind = Null)
      BY <2>1
    <3> QED  BY <1>2, <2>2, <3>1, <3>2 DEF Standing
  <2> QED  BY <1>1, <1>2, <2>1, <2>3, Progress
<1> QED  BY <1>2, <1>3, <1>4

LEMMA EraseStep ==
    ASSUME MessageInv, NEW a \in Actors, Message!EraseKey(a) \/ Message!EraseMessage(a)
    PROVE  MessageInv'
<1>1. actor \in [Actors -> Browsing] /\ actor[a] \in Browsing
      /\ flash_key \in Message!Kinds \cup {Null} /\ flash_message \in Message!Texts
  BY DEF MessageInv, MessageTypes, Browsing
<1>2. actor[a].pc \in {"erase key", "erase message"} /\ (actor[a].alone => Standing(actor[a]))
      /\ UNCHANGED <<due, messages>>
      /\ IF actor[a].pc = "erase key"
         THEN flash_key' = Null /\ flash_message' = flash_message
         ELSE flash_message' = Null /\ flash_key' = flash_key
  BY DEF MessageInv, Message!EraseKey, Message!EraseMessage, Message!At
<1>3. PICK j \in Browsing :
          /\ actor' = [actor EXCEPT ![a] = j]
          /\ j.mine = actor[a].mine /\ j.alone = actor[a].alone
          /\ j.pc = IF actor[a].pc = "erase key" THEN "erase message" ELSE "shown"
  <2> DEFINE n(q) == [actor[a] EXCEPT !.pc = q]
  <2>1. \A q \in {"erase message", "shown"} :
            n(q) \in Browsing /\ n(q).pc = q /\ n(q).mine = actor[a].mine
            /\ n(q).alone = actor[a].alone
    BY <1>1 DEF Browsing, Pages
  <2>2. actor' = [actor EXCEPT ![a] = n(IF actor[a].pc = "erase key" THEN "erase message"
                                         ELSE "shown")]
    BY DEF Message!EraseKey, Message!EraseMessage, Message!At, Message!Goes
  <2> HIDE DEF n
  <2> QED  BY <1>2, <2>1, <2>2
<1>4. flash_key' \in Message!Kinds \cup {Null} /\ flash_message' \in Message!Texts
  BY <1>1, <1>2 DEF Message!Texts
<1>5. actor[a].alone => Standing(j)'
  BY <1>2, <1>3 DEF Standing
<1> QED  BY <1>2, <1>3, <1>4, <1>5, Progress

\* A request leaves: after one that was alone the session holds what is due.
LEMMA OverStep == ASSUME MessageInv, NEW a \in Actors, Message!Over(a) PROVE MessageInv'
<1>1. actor \in [Actors -> Browsing] /\ actor[a] \in Browsing
      /\ flash_key \in Message!Kinds \cup {Null} /\ flash_message \in Message!Texts
      /\ due \in [kind : Message!Kinds \cup {Null, "any"}, text : Message!Texts]
  BY DEF MessageInv, MessageTypes, Browsing
<1>2. /\ actor[a].pc \in {"redirected", "shown"} /\ UNCHANGED <<flash_key, flash_message, messages>>
      /\ actor' = [actor EXCEPT ![a] = Message!Idle]
      /\ due' = IF ~actor[a].alone THEN [due EXCEPT !.kind = "any"]
                ELSE IF actor[a].pc = "shown" THEN Blank ELSE actor[a].mine
  BY DEF Message!Over, Message!At, Message!None, Blank
<1>3. Message!Idle \in Browsing /\ Message!Idle.pc = "idle" /\ Blank \in Notes
  BY DEF Message!Idle, Message!None, Browsing, Notes, Message!Texts, Blank
<1>4. /\ actor' \in [Actors -> Browsing] /\ actor'[a].pc = "idle"
      /\ \A b \in Actors \ {a} : actor'[b] = actor[b]
  BY <1>1, <1>2, <1>3
<1>5. due' \in [kind : Message!Kinds \cup {Null, "any"}, text : Message!Texts]
  <2>1. Notes \subseteq [kind : Message!Kinds \cup {Null, "any"}, text : Message!Texts]
    BY DEF Notes
  <2>2. actor[a].mine \in Notes
    BY <1>1 DEF Browsing
  <2>3. [due EXCEPT !.kind = "any"] \in [kind : Message!Kinds \cup {Null, "any"}, text : Message!Texts]
    BY <1>1
  <2> QED  BY <1>2, <1>3, <2>1, <2>2, <2>3
<1>6. MessageTypes'
  BY <1>1, <1>2, <1>4, <1>5 DEF MessageTypes, Browsing
<1>7. actor[a].alone => /\ \A b \in Actors : actor'[b].pc = "idle"
                        /\ Standing(actor[a])
  BY <1>2, <1>4 DEF MessageInv
<1>8. CASE actor[a].alone
  <2>1. Holds(due)' /\ (due'.kind = Null => due' = Blank)
    BY <1>2, <1>7, <1>8, BlankKind DEF Standing, Holds
  <2> QED  BY <1>2, <1>6, <1>7, <1>8, <2>1 DEF MessageInv, Blank
<1>9. CASE ~actor[a].alone
  <2>1. due'.kind = "any" /\ due'.kind # Null
    BY <1>1, <1>2, <1>9, MessageAssumption
  <2>2. ASSUME NEW c \in Actors, actor'[c].pc # "idle", actor'[c].alone
        PROVE  FALSE
    <3>1. c # a /\ actor[c].alone /\ actor[c].pc # "idle"
      BY <1>4, <2>2
    <3> QED  BY <1>2, <3>1 DEF MessageInv
  <2> QED  BY <1>2, <1>6, <2>1, <2>2 DEF MessageInv
<1> QED  BY <1>8, <1>9

LEMMA MessageAlways == Spec => []MessageInv
<1>1. Init => MessageInv
  BY MessageInit DEF Init
<1>2. ASSUME MessageInv, UNCHANGED messageVars PROVE MessageInv'
  BY <1>2 DEF messageVars, MessageInv, MessageTypes, Standing, Holds, Blank
<1>3. MessageInv /\ [Message!Next]_messageVars => MessageInv'
  BY <1>2, EnterStep, SetStep, ClearStep, GetStep, EraseStep, OverStep DEF Message!Next
<1>4. MessageInv /\ [Next]_vars => MessageInv'
  BY <1>3, MessagePart
<1> QED  BY <1>1, <1>4, PTL DEF Spec

\* A page that overlaps no other request of its browser shows the message
\* stored last, whole and once, for any number of requests before it and however
\* they overlapped (FlashHelper.h, consume).
THEOREM PagesShowTheirMessage == Spec => []PageShowsItsMessage
<1>1. MessageInv => PageShowsItsMessage
  BY DEF MessageInv, Standing, PageShowsItsMessage, Message!PageShowsItsMessage, Message!At
<1> QED  BY <1>1, MessageAlways, PTL

-----------------------------------------------------------------------------
(* Listing *)

LEMMA ListsPart == [Next]_vars => [Lists!Next]_listVars
<1>1. CASE UNCHANGED vars
  BY <1>1 DEF vars
<1>2. CASE ListsSteps
  BY <1>2 DEF ListsSteps
<1>3. CASE Next /\ ~ListsSteps
  BY <1>3 DEF Next, RouteSteps, UploadSteps, TemplateSteps, RateSteps,
              TokenSteps, MessageSteps, BodySteps, StartSteps
<1> QED  BY <1>1, <1>2, <1>3

ListTypes ==
    /\ list \in Lists!WebLists \cup Lists!ApiLists \cup {Lists!Catalog}
    /\ table \in Seq(BOOLEAN)
    /\ query \in [page : Nat \ {0}, size : Nat, filter : BOOLEAN]
    /\ step \in {"closed", "count", "rows", "shown", "ended"}
    /\ total \in Nat
    /\ disturbed \in BOOLEAN

ShownCounted == \A i \in DOMAIN shown : shown[i] \in Nat

\* How long a table is.
TableBounded ==
    \/ Len(table) <= MaxRows
    \/ list # Lists!Catalog /\ disturbed /\ Len(table) <= MaxRows + 1
    \/ list = Lists!Catalog /\ Len(table) <= MaxItems

\* An open form holds the user's roles among those it offers.
FormSound ==
    /\ held \subseteq 1..MaxRows
    /\ form # {-1} =>
          /\ step = "closed" /\ held \subseteq 1..Len(table)
          /\ form = held \cap Lists!OfferedRoles(table)

\* A list whose page has a next one.
PageBounded ==
    step = "shown" => query.page < Lists!PagesOf(list, total, Lists!SizeOf(list, query.size))

ListInv == ListTypes /\ ShownCounted /\ TableBounded /\ FormSound /\ PageBounded

\* How many rows of a table there are, and how many of some of them.
LEMMA PartsAreCounted ==
    ASSUME NEW S, IsFiniteSet(S), NEW T \in SUBSET S
    PROVE  /\ Lists!Cardinality(S) \in Nat /\ Lists!Cardinality(T) \in Nat
           /\ Lists!Cardinality(T) <= Lists!Cardinality(S)
           /\ T # {} => Lists!Cardinality(T) >= 1
<1>1. IsFiniteSet(T) /\ Cardinality(T) <= Cardinality(S)
  BY FS_Subset
<1>2. Cardinality(S) \in Nat /\ Cardinality(T) \in Nat
  BY <1>1, FS_CardinalityType
<1>3. T # {} => Cardinality(T) # 0
  BY <1>1, FS_EmptySet
<1>4. ASSUME NEW R PROVE Lists!Cardinality(R) = Cardinality(R)
  BY DEF Lists!Cardinality, Cardinality
<1> QED  BY <1>1, <1>2, <1>3, <1>4

LEMMA PassingIsFinite ==
    ASSUME table \in Seq(BOOLEAN), NEW filter
    PROVE  IsFiniteSet(Lists!Passing(filter)) /\ Lists!Passing(filter) \subseteq DOMAIN table
<1>1. DOMAIN table = 1..Len(table) /\ Len(table) \in Nat
  OBVIOUS
<1>2. IsFiniteSet(1..Len(table))
  BY <1>1, FS_Interval
<1>3. Lists!Passing(filter) \subseteq DOMAIN table
  BY DEF Lists!Passing
<1> QED  BY <1>1, <1>2, <1>3, FS_Subset

LEMMA RowsAreCounted ==
    ASSUME table \in Seq(BOOLEAN), NEW filter
    PROVE  Lists!Cardinality(Lists!Passing(filter)) \in Nat
BY PassingIsFinite, PartsAreCounted

LEMMA ListInit == Lists!Init => ListInv
<1> SUFFICES ASSUME Lists!Init PROVE ListInv
  OBVIOUS
<1>1. ListTypes
  <2>1. list = "users" /\ table = <<>> /\ query = Lists!Closed /\ step = "closed" /\ total = 0
        /\ disturbed = FALSE
    BY DEF Lists!Init
  <2>2. Lists!Closed \in [page : Nat \ {0}, size : Nat, filter : BOOLEAN]
    BY DEF Lists!Closed
  <2>3. "users" \in Lists!WebLists /\ <<>> \in Seq(BOOLEAN) /\ 0 \in Nat
    BY DEF Lists!WebLists
  <2> QED  BY <2>1, <2>2, <2>3 DEF ListTypes
<1>4. ShownCounted
  BY DEF Lists!Init, ShownCounted
<1>2. TableBounded
  BY ListAssumption DEF Lists!Init, TableBounded
<1>3. FormSound /\ PageBounded
  BY DEF Lists!Init, FormSound, PageBounded
<1> QED  BY <1>1, <1>2, <1>3, <1>4 DEF ListInv

LEMMA TablesAreLists == \A q \in Lists!Tables : q \in Seq(BOOLEAN) /\ Len(q) <= MaxRows
<1> SUFFICES ASSUME NEW n \in 0..MaxRows, NEW q \in [1..n -> BOOLEAN]
             PROVE  q \in Seq(BOOLEAN) /\ Len(q) <= MaxRows
  BY DEF Lists!Tables
<1> QED  BY ListAssumption

LEMMA OpenListStep ==
    ASSUME ListInv, Lists!OpenWebList \/ Lists!OpenApiList \/ Lists!OpenCatalog
    PROVE  ListInv'
<1>0. Lists!Sizes \subseteq Nat /\ {0} \subseteq Nat
  BY ListAssumption DEF Lists!Sizes
<1>1. PICK l \in Lists!WebLists \cup Lists!ApiLists \cup {Lists!Catalog}, q \in Seq(BOOLEAN),
           sizes \in SUBSET Nat, filters \in SUBSET BOOLEAN :
          /\ Lists!Open(l, q, sizes, filters)
          /\ Len(q) <= MaxRows \/ (l = Lists!Catalog /\ Len(q) <= MaxItems)
  <2>1. CASE Lists!OpenWebList
    <3>1. PICK l \in Lists!WebLists, q \in Lists!Tables : Lists!Open(l, q, Lists!Sizes, BOOLEAN)
      BY <2>1 DEF Lists!OpenWebList
    <3>2. q \in Seq(BOOLEAN) /\ Len(q) <= MaxRows
      BY TablesAreLists
    <3> QED  BY <1>0, <3>1, <3>2
  <2>2. CASE Lists!OpenApiList
    <3>1. PICK l \in Lists!ApiLists, q \in Lists!Tables :
              Lists!Open(l, q, IF l = "api.users" THEN Lists!Sizes ELSE {0}, BOOLEAN)
      BY <2>2 DEF Lists!OpenApiList
    <3>2. q \in Seq(BOOLEAN) /\ Len(q) <= MaxRows
      BY TablesAreLists
    <3> QED  BY <1>0, <3>1, <3>2
  <2>3. CASE Lists!OpenCatalog
    <3>1. PICK n \in 0..MaxItems :
              Lists!Open(Lists!Catalog, [i \in 1..n |-> TRUE], Lists!Sizes, {FALSE})
      BY <2>3 DEF Lists!OpenCatalog
    <3>2. n \in Nat /\ n <= MaxItems
      BY ListAssumption
    <3>5. [i \in 1..n |-> TRUE] \in Seq(BOOLEAN) /\ Len([i \in 1..n |-> TRUE]) = n
      BY <3>2
    <3>3. PICK q \in Seq(BOOLEAN) : q = [i \in 1..n |-> TRUE] /\ Len(q) = n
      BY <3>5, Zenon
    <3>4. {FALSE} \subseteq BOOLEAN
      OBVIOUS
    <3> QED  BY <1>0, <3>1, <3>2, <3>3, <3>4
  <2> QED  BY <2>1, <2>2, <2>3
<1>2. /\ step = "closed" /\ form = {-1} /\ list' = l /\ table' = q
      /\ query' \in [page : {1}, size : sizes, filter : filters]
      /\ shown' = [i \in DOMAIN q |-> 0] /\ step' = "count" /\ disturbed' = FALSE
      /\ UNCHANGED <<total, held, form>>
  BY <1>1 DEF Lists!Open
<1>3. query' \in [page : Nat \ {0}, size : Nat, filter : BOOLEAN]
  <2>1. PICK k \in sizes, f \in filters : query' = [page |-> 1, size |-> k, filter |-> f]
    BY <1>2
  <2>2. k \in Nat /\ f \in BOOLEAN
    OBVIOUS
  <2> QED  BY <2>1, <2>2
<1>4. ListTypes' /\ ShownCounted'
  BY <1>2, <1>3 DEF ListInv, ListTypes, ShownCounted
<1>5. TableBounded'
  BY <1>1, <1>2, <1>3 DEF TableBounded
<1>6. FormSound' /\ PageBounded'
  BY <1>2 DEF ListInv, FormSound, PageBounded
<1> QED  BY <1>4, <1>5, <1>6 DEF ListInv

LEMMA DisturbStep == ASSUME ListInv, Lists!Disturb PROVE ListInv'
<1>1. /\ step \in {"count", "rows", "shown"} /\ ~disturbed /\ list # Lists!Catalog /\ table # <<>>
      /\ table' \in {Append(table, TRUE), Tail(table)} /\ disturbed' = TRUE
      /\ UNCHANGED <<list, pin, query, asked, step, total, shown, held, form>>
  BY DEF Lists!Disturb
<1>2. table \in Seq(BOOLEAN) /\ Len(table) \in Nat /\ Len(table) <= MaxRows
  BY <1>1 DEF ListInv, ListTypes, TableBounded
<1>3. table' \in Seq(BOOLEAN) /\ Len(table') <= Len(table) + 1 /\ Len(table') \in Nat
  <2>1. Append(table, TRUE) \in Seq(BOOLEAN) /\ Len(Append(table, TRUE)) = Len(table) + 1
    BY <1>2
  <2>2. Tail(table) \in Seq(BOOLEAN) /\ Len(Tail(table)) = Len(table) - 1
    BY <1>1, <1>2, HeadTailProperties
  <2>3. CASE table' = Append(table, TRUE)
    BY <1>2, <2>1, <2>3
  <2>4. CASE table' = Tail(table)
    BY <1>2, <2>2, <2>4, LenProperties
  <2> QED  BY <1>1, <2>3, <2>4
<1>4. ListTypes' /\ ShownCounted'
  BY <1>1, <1>3 DEF ListInv, ListTypes, ShownCounted
<1>5. TableBounded'
  BY <1>1, <1>2, <1>3, ListAssumption DEF TableBounded
<1>6. FormSound'
  BY <1>1 DEF ListInv, FormSound
<1>7. PageBounded'
  BY <1>1 DEF ListInv, PageBounded, Lists!PagesOf, Lists!SizeOf
<1> QED  BY <1>4, <1>5, <1>6, <1>7 DEF ListInv

\* A page is read: the count, the rows, the link to the next page.
LEMMA ReadStep ==
    ASSUME ListInv, Lists!Count \/ Lists!Fetch \/ Lists!FollowNext PROVE ListInv'
<1>1. CASE Lists!Count
  <2>1. /\ step = "count" /\ step' = "rows"
        /\ total' = Lists!Cardinality(Lists!Passing(query.filter))
        /\ UNCHANGED <<list, table, pin, query, asked, shown, disturbed, held, form>>
    BY <1>1 DEF Lists!Count
  <2>2. total' \in Nat
    BY <2>1, RowsAreCounted DEF ListInv, ListTypes
  <2>3. ListTypes' /\ ShownCounted' /\ TableBounded' /\ FormSound' /\ PageBounded'
    BY <2>1, <2>2
       DEF ListInv, ListTypes, ShownCounted, TableBounded, FormSound, PageBounded
  <2> QED  BY <2>3 DEF ListInv
<1>2. CASE Lists!Fetch
  <2>1. PICK S : shown' = [i \in DOMAIN shown |-> shown[i] + (IF i \in S THEN 1 ELSE 0)]
    BY <1>2 DEF Lists!Fetch
  <2>2. /\ step = "rows"
        /\ step' = IF query.page < Lists!PagesOf(list, total, Lists!SizeOf(list, query.size))
                   THEN "shown" ELSE "ended"
        /\ UNCHANGED <<list, table, pin, query, asked, total, disturbed, held, form>>
    BY <1>2 DEF Lists!Fetch
  <2>3. ShownCounted'
    BY <2>1 DEF ListInv, ShownCounted
  <2>4. ListTypes' /\ TableBounded' /\ FormSound'
    BY <2>2 DEF ListInv, ListTypes, TableBounded, FormSound
  <2>5. PageBounded'
    BY <2>2 DEF PageBounded, Lists!PagesOf, Lists!SizeOf
  <2> QED  BY <2>3, <2>4, <2>5 DEF ListInv
<1>3. CASE Lists!FollowNext
  <2>1. /\ step = "shown" /\ step' = "count" /\ query' = Lists!LinkTo(query.page + 1)
        /\ UNCHANGED <<list, table, pin, asked, total, shown, disturbed, held, form>>
    BY <1>3 DEF Lists!FollowNext
  <2>2. query' \in [page : Nat \ {0}, size : Nat, filter : BOOLEAN]
    BY <2>1 DEF ListInv, ListTypes, Lists!LinkTo
  <2>3. ListTypes' /\ ShownCounted' /\ TableBounded' /\ FormSound' /\ PageBounded'
    BY <2>1, <2>2
       DEF ListInv, ListTypes, ShownCounted, TableBounded, FormSound, PageBounded
  <2> QED  BY <2>3 DEF ListInv
<1> QED  BY <1>1, <1>2, <1>3

LEMMA LeaveStep == ASSUME ListInv, Lists!Leave PROVE ListInv'
<1>1. /\ step = "ended" /\ step' = "closed" /\ table' = <<>> /\ shown' = <<>>
      /\ query' = Lists!Closed /\ list' = "users" /\ total' = 0 /\ disturbed' = FALSE
      /\ UNCHANGED <<held, form>>
  BY DEF Lists!Leave
<1>2. ListTypes' /\ ShownCounted'
  <2>1. Lists!Closed \in [page : Nat \ {0}, size : Nat, filter : BOOLEAN]
    BY DEF Lists!Closed
  <2>2. "users" \in Lists!WebLists /\ <<>> \in Seq(BOOLEAN) /\ 0 \in Nat
    BY DEF Lists!WebLists
  <2>3. ListTypes'
    BY <1>1, <2>1, <2>2 DEF ListTypes
  <2>4. ShownCounted'
    BY <1>1 DEF ShownCounted
  <2> QED  BY <2>3, <2>4
<1>3. TableBounded'
  BY <1>1, ListAssumption DEF TableBounded
<1>4. FormSound' /\ PageBounded'
  BY <1>1 DEF ListInv, FormSound, PageBounded
<1> QED  BY <1>2, <1>3, <1>4 DEF ListInv

LEMMA EditStep == ASSUME ListInv, Lists!OpenEdit \/ Lists!SubmitEdit PROVE ListInv'
<1>1. CASE Lists!OpenEdit
  <2>1. PICK n \in 0..MaxRows : table' = [i \in 1..n |-> TRUE]
    BY <1>1 DEF Lists!OpenEdit
  <2>2. /\ step = "closed" /\ held' \in SUBSET (1..Len(table'))
        /\ form' = held' \cap Lists!OfferedRoles(table')
        /\ UNCHANGED <<list, pin, query, asked, step, total, shown, disturbed>>
    BY <1>1 DEF Lists!OpenEdit
  <2>3. n \in Nat /\ n <= MaxRows /\ table' \in Seq(BOOLEAN) /\ Len(table') = n
    BY <2>1, ListAssumption
  <2>4. ListTypes' /\ ShownCounted' /\ PageBounded'
    BY <2>2, <2>3 DEF ListInv, ListTypes, ShownCounted, PageBounded
  <2>5. TableBounded'
    BY <2>3 DEF TableBounded
  <2>6. held' \subseteq 1..MaxRows
    BY <2>2, <2>3, ListAssumption
  <2>7. FormSound'
    BY <2>2, <2>6 DEF FormSound, Lists!OfferedRoles
  <2> QED  BY <2>4, <2>5, <2>7 DEF ListInv
<1>2. CASE Lists!SubmitEdit
  <2>1. /\ form # {-1} /\ held' \in {held, form} /\ form' = {-1} /\ table' = <<>>
        /\ UNCHANGED <<list, pin, query, asked, step, total, shown, disturbed>>
    BY <1>2 DEF Lists!SubmitEdit
  <2>2. held' \subseteq held
    BY <2>1 DEF ListInv, FormSound
  <2>3. ListTypes' /\ ShownCounted' /\ PageBounded' /\ FormSound'
    BY <2>1, <2>2 DEF ListInv, ListTypes, ShownCounted, PageBounded, FormSound
  <2>4. TableBounded'
    BY <2>1, ListAssumption DEF TableBounded
  <2> QED  BY <2>3, <2>4 DEF ListInv
<1> QED  BY <1>1, <1>2

LEMMA ListAlways == Spec => []ListInv
<1>1. Init => ListInv
  BY ListInit DEF Init
<1>2. ASSUME ListInv, UNCHANGED listVars PROVE ListInv'
  BY <1>2 DEF listVars, ListInv, ListTypes, ShownCounted, TableBounded, FormSound, PageBounded
<1>3. ListInv /\ [Lists!Next]_listVars => ListInv'
  BY <1>2, OpenListStep, DisturbStep, ReadStep, LeaveStep, EditStep DEF Lists!Next
<1>4. ListInv /\ [Next]_vars => ListInv'
  BY <1>3, ListsPart
<1> QED  BY <1>1, <1>4, PTL DEF Spec

\* Saving a user's edit form unchanged keeps the user's roles, whatever lists are
\* walked and however many roles there are, up to what the form asks for
\* (usersEdit and usersUpdate of AccessController.cc).
THEOREM SavedFormsKeepRoles == Spec => EditKeepsRoles
<1>1. ASSUME ListInv, Lists!Next, form # {-1}, form' = {-1}, Len(table) <= Offered
      PROVE  held' = held
  <2>1. step = "closed" /\ held \subseteq 1..Len(table)
        /\ form = held \cap Lists!OfferedRoles(table)
    BY <1>1 DEF ListInv, FormSound
  <2>2. Len(table) \in Nat /\ Len(table) <= Offered /\ Offered \in Nat
    BY <1>1, ListAssumption DEF ListInv, ListTypes
  <2>3. Lists!OfferedRoles(table) = 1..Len(table)
    BY <2>2 DEF Lists!OfferedRoles, Lists!AtMost
  <2>4. form = held
    BY <2>1, <2>3
  <2>5. Lists!SubmitEdit
    BY <1>1, <2>1 DEF Lists!Next, Lists!OpenWebList, Lists!OpenApiList, Lists!OpenCatalog,
          Lists!Open, Lists!Disturb, Lists!Count, Lists!Fetch, Lists!FollowNext, Lists!Leave,
          Lists!OpenEdit
  <2> QED  BY <2>4, <2>5 DEF Lists!SubmitEdit
<1>2. ListInv /\ [Next]_vars
          => [form # {-1} /\ form' = {-1} /\ Len(table) <= Offered => held' = held]_listVars
  BY <1>1, ListsPart
<1> QED  BY <1>2, ListAlways, PTL DEF Spec, EditKeepsRoles, Lists!EditKeepsRoles, Lists!vars, listVars

-----------------------------------------------------------------------------
(* The walk from the first page to the last *)

\* A row the user asked for; does the walk still ask for the same?
Wanted(i) == table[i] \/ ~asked.filter
AsAsked   == query.size = asked.size /\ query.filter = asked.filter

PageSize   == Lists!SizeOf(list, query.size)
Rank(i) == Lists!Place(i, Lists!Passing(query.filter))

\* The rows wanted among the first k of the list were on the screen, and once and
\* alone when the links keep what was asked.
FirstShown(k) ==
    \A i \in DOMAIN table :
        /\ Wanted(i) /\ Rank(i) <= k => shown[i] > 0
        /\ AsAsked => shown[i] = (IF Wanted(i) /\ Rank(i) <= k THEN 1 ELSE 0)

WalkSound ==
    step # "closed" /\ ~disturbed =>
        /\ DOMAIN shown = DOMAIN table
        /\ asked.size \in Nat /\ asked.filter \in BOOLEAN
        /\ query.size \in {asked.size, 0} /\ (query.filter => asked.filter)
        /\ step \in {"count", "rows"} => FirstShown((query.page - 1) * PageSize)
        /\ step \in {"shown", "ended"} => FirstShown(query.page * PageSize)
        /\ step # "count" => total = Lists!Cardinality(Lists!Passing(query.filter))
        /\ step = "ended" => query.page >= Lists!PagesOf(list, total, PageSize)

WalkInv == ListInv /\ WalkSound

\* The place of a row in the list: a number, at most that of the rows that pass.
RanksSound ==
    \A i \in Lists!Passing(query.filter) :
        /\ Rank(i) \in Nat /\ 1 <= Rank(i)
        /\ Rank(i) <= Lists!Cardinality(Lists!Passing(query.filter))

LEMMA RanksCount == table \in Seq(BOOLEAN) => RanksSound
<1> SUFFICES ASSUME table \in Seq(BOOLEAN), NEW i \in Lists!Passing(query.filter)
             PROVE  /\ Rank(i) \in Nat /\ 1 <= Rank(i)
                    /\ Rank(i) <= Lists!Cardinality(Lists!Passing(query.filter))
  BY DEF RanksSound
<1> DEFINE S == Lists!Passing(query.filter)
           T == IF list = Lists!Catalog THEN Lists!Pinned(i, S) ELSE Lists!Ordered(i, S)
<1>1. IsFiniteSet(S) /\ S \subseteq DOMAIN table
  BY PassingIsFinite
<1>2. i \in Int
  BY <1>1
<1>3. T \in SUBSET S /\ i \in T
  BY <1>2 DEF Lists!Pinned, Lists!Ordered
<1>4. Rank(i) = Lists!Cardinality(T)
  BY DEF Rank, Lists!Place
<1> HIDE DEF S, T
<1>5. Lists!Cardinality(T) \in Nat /\ Lists!Cardinality(S) \in Nat
      /\ Lists!Cardinality(T) <= Lists!Cardinality(S) /\ Lists!Cardinality(T) >= 1
  BY <1>1, <1>3, PartsAreCounted
<1> QED  BY <1>4, <1>5 DEF S

\* A row comes no later in a list that leaves more rows out.
LEMMA RanksFall ==
    ASSUME table \in Seq(BOOLEAN), NEW f \in BOOLEAN, NEW g \in BOOLEAN, g => f, NEW i
    PROVE  Lists!Place(i, Lists!Passing(f)) <= Lists!Place(i, Lists!Passing(g))
<1> DEFINE Upto(S) == IF list = Lists!Catalog THEN Lists!Pinned(i, S) ELSE Lists!Ordered(i, S)
           S == Upto(Lists!Passing(f))
           T == Upto(Lists!Passing(g))
<1>1. Lists!Passing(f) \subseteq Lists!Passing(g)
  BY DEF Lists!Passing
<1>2. S \subseteq T /\ T \subseteq Lists!Passing(g)
  BY <1>1 DEF Lists!Pinned, Lists!Ordered
<1>3. IsFiniteSet(Lists!Passing(g))
  BY PassingIsFinite
<1>4. Lists!Place(i, Lists!Passing(f)) = Lists!Cardinality(S)
      /\ Lists!Place(i, Lists!Passing(g)) = Lists!Cardinality(T)
  BY DEF Lists!Place
<1> HIDE DEF S, T
<1>5. IsFiniteSet(T)
  BY <1>2, <1>3, FS_Subset
<1> QED  BY <1>2, <1>4, <1>5, PartsAreCounted

\* The arithmetic of pages.
LEMMA PagesMultiply ==
    ASSUME NEW p \in Nat \ {0}, NEW k \in Nat \ {0}
    PROVE  (p - 1) * k \in Nat /\ p * k \in Nat /\ p * k = (p - 1) * k + k
OBVIOUS

LEMMA PagesGrow ==
    ASSUME NEW p \in Nat, NEW q \in Nat, NEW k \in Nat, p <= q
    PROVE  p * k <= q * k /\ k * p <= k * q
OBVIOUS

\* The pages hold every row.
LEMMA PagesSuffice ==
    ASSUME NEW l, NEW n \in Nat, NEW k \in Nat \ {0}
    PROVE  LET pages == Lists!PagesOf(l, n, k) IN pages \in Nat /\ n <= pages * k
<1> DEFINE d == (n + k - 1) \div k
<1>1. d \in Nat /\ n <= d * k
  OBVIOUS
<1>2. PICK m \in Nat : m = Lists!PagesOf(l, n, k) /\ d <= m
  BY <1>1 DEF Lists!PagesOf, Lists!MetaPages, Lists!ApiPages, Lists!CeilDiv, Lists!AtLeast
<1> HIDE DEF d
<1> QED  BY <1>1, <1>2, PagesGrow

LEMMA PageSizes ==
    ASSUME ListTypes
    PROVE  /\ PageSize \in Nat \ {0}
           /\ Lists!LinkTo(query.page + 1).size \in {query.size, 0}
           /\ LET k == Lists!SizeOf(list, Lists!LinkTo(query.page + 1).size)
              IN  k \in Nat \ {0} /\ k <= PageSize
<1>1. query.size \in Nat
  BY DEF ListTypes
<1>2. Lists!LinkTo(query.page + 1).size = IF list \notin Lists!WebLists THEN query.size ELSE 0
  BY DEF Lists!LinkTo, Lists!LinkKeepsSize
<1>3. CASE list \in Lists!WebLists
  <2>1. Lists!SizeOf(list, query.size) = Lists!AtLeast(query.size, MinSize)
        /\ Lists!SizeOf(list, 0) = Lists!AtLeast(0, MinSize)
    BY <1>3 DEF Lists!SizeOf, Lists!WebSize, Lists!WebLists, Lists!Catalog
  <2>2. Lists!AtLeast(query.size, MinSize) \in Nat \ {0} /\ Lists!AtLeast(0, MinSize) \in Nat \ {0}
        /\ Lists!AtLeast(0, MinSize) <= Lists!AtLeast(query.size, MinSize)
    BY <1>1, ListAssumption DEF Lists!AtLeast
  <2> QED  BY <1>2, <1>3, <2>1, <2>2 DEF PageSize
<1>4. CASE list \notin Lists!WebLists
  <2>1. PageSize \in Nat \ {0}
    BY <1>1, <1>4, ListAssumption
       DEF ListTypes, PageSize, Lists!SizeOf, Lists!ApiLists, Lists!Catalog, Lists!ApiUsersSize,
           Lists!AtMost, Lists!ApiRolesSize, Lists!ApiPermissionsSize, Lists!CatalogSize
  <2> QED  BY <1>2, <1>4, <2>1 DEF PageSize
<1> QED  BY <1>3, <1>4

LEMMA RanksAndSizes == ListTypes => RanksSound /\ PageSize \in Nat \ {0}
BY RanksCount, PageSizes DEF ListTypes

LEMMA RanksAndSizesNext == ListTypes' => RanksSound' /\ (PageSize \in Nat \ {0})'
BY RanksAndSizes, PTL

\* The list is opened at its first page.
LEMMA WalkOpens ==
    ASSUME WalkInv, ListInv', Lists!OpenWebList \/ Lists!OpenApiList \/ Lists!OpenCatalog
    PROVE  WalkSound'
<1>1. PICK l, q, sizes, filters : Lists!Open(l, q, sizes, filters)
  BY DEF Lists!OpenWebList, Lists!OpenApiList, Lists!OpenCatalog
<1>2. /\ table' = q /\ asked' = query' /\ step' = "count"
      /\ shown' = [i \in DOMAIN q |-> 0] /\ query'.page = 1
  BY <1>1 DEF Lists!Open
<1>3. query'.page = 1 /\ query'.size \in Nat /\ query'.filter \in BOOLEAN
      /\ table' \in Seq(BOOLEAN)
  BY <1>2 DEF ListInv, ListTypes
<1>4. RanksSound' /\ PageSize' \in Nat \ {0}
  BY RanksAndSizesNext DEF ListInv
<1>6. (query'.page - 1) * PageSize' = 0
  <2>1. PICK k \in Nat : k = PageSize'
    BY <1>4
  <2>2. query'.page - 1 = 0 /\ 0 * k = 0
    BY <1>3
  <2> QED  BY <2>1, <2>2
<1>7. FirstShown(0)'
  <2>1. ASSUME NEW i \in DOMAIN table', Wanted(i)'
        PROVE  Rank(i)' \in Nat /\ 1 <= Rank(i)'
    <3>1. i \in Lists!Passing(query.filter)'
      BY <1>2, <2>1 DEF Lists!Passing, Wanted
    <3> QED  BY <1>4, <3>1 DEF RanksSound
  <2>2. \A i \in DOMAIN table' : shown'[i] = 0
    BY <1>2
  <2> QED  BY <2>1, <2>2 DEF FirstShown
<1>8. FirstShown((query.page - 1) * PageSize)'
  BY <1>6, <1>7 DEF FirstShown
<1> QED  BY <1>2, <1>3, <1>8 DEF WalkSound

LEMMA WalkCounts == ASSUME WalkInv, Lists!Count PROVE WalkSound'
<1>1. /\ step = "count" /\ step' = "rows"
      /\ total' = Lists!Cardinality(Lists!Passing(query.filter))
      /\ UNCHANGED <<list, table, pin, query, asked, shown, disturbed, held, form>>
  BY DEF Lists!Count
<1>2. PageSize' = PageSize /\ Lists!Passing(query.filter)' = Lists!Passing(query.filter)
  BY <1>1 DEF PageSize, Lists!SizeOf, Lists!Passing
<1>3. \A k : FirstShown(k) => FirstShown(k)'
  BY <1>1 DEF FirstShown, Wanted, AsAsked, Rank, Lists!Place, Lists!Pinned, Lists!Ordered,
              Lists!Passing
<1> QED  BY <1>1, <1>2, <1>3 DEF WalkInv, WalkSound

\* A page adds its rows to those shown.
LEMMA WalkFetches == ASSUME WalkInv, Lists!Fetch PROVE WalkSound'
<1> SUFFICES ASSUME ~disturbed PROVE WalkSound'
  BY DEF Lists!Fetch, WalkSound
<1> DEFINE Here == Lists!PageOf(query.page, PageSize, query.filter)
           pages == Lists!PagesOf(list, total, PageSize)
<1>1. /\ step = "rows" /\ step' = IF query.page < pages THEN "shown" ELSE "ended"
      /\ shown' = [i \in DOMAIN shown |-> shown[i] + (IF i \in Here THEN 1 ELSE 0)]
      /\ UNCHANGED <<list, table, pin, query, asked, total, disturbed, held, form>>
  BY DEF Lists!Fetch, PageSize
<1>2. /\ DOMAIN shown = DOMAIN table /\ asked.size \in Nat /\ asked.filter \in BOOLEAN
      /\ query.size \in {asked.size, 0} /\ (query.filter => asked.filter)
      /\ FirstShown((query.page - 1) * PageSize)
      /\ total = Lists!Cardinality(Lists!Passing(query.filter))
  BY <1>1 DEF WalkInv, WalkSound
<1>3. /\ query.page \in Nat \ {0} /\ query.filter \in BOOLEAN /\ total \in Nat
      /\ table \in Seq(BOOLEAN) /\ \A i \in DOMAIN shown : shown[i] \in Nat
  BY DEF WalkInv, ListInv, ListTypes, ShownCounted
<1>4. PageSize \in Nat \ {0} /\ RanksSound
  BY <1>3, PageSizes, RanksCount DEF WalkInv, ListInv
<1>5. PICK k \in Nat, m \in Nat \ {0} :
          k = (query.page - 1) * PageSize /\ m = PageSize /\ query.page * PageSize = k + m
  BY <1>3, <1>4, PagesMultiply
<1>6. \A i \in DOMAIN table :
          i \in Here <=> (i \in Lists!Passing(query.filter) /\ k < Rank(i) /\ Rank(i) <= k + m)
  BY <1>5 DEF Lists!PageOf, Lists!Slice, Rank, Lists!Passing
<1>7. ASSUME NEW i \in DOMAIN table
      PROVE  /\ Wanted(i) /\ Rank(i) <= k + m => shown'[i] > 0
             /\ AsAsked => shown'[i] = (IF Wanted(i) /\ Rank(i) <= k + m THEN 1 ELSE 0)
  <2>1. shown'[i] = shown[i] + (IF i \in Here THEN 1 ELSE 0) /\ shown[i] \in Nat
    BY <1>1, <1>2, <1>3
  <2>2. /\ Wanted(i) /\ Rank(i) <= k => shown[i] > 0
        /\ AsAsked => shown[i] = (IF Wanted(i) /\ Rank(i) <= k THEN 1 ELSE 0)
    BY <1>2, <1>5 DEF FirstShown
  <2>3. /\ Wanted(i) => i \in Lists!Passing(query.filter)
        /\ AsAsked /\ i \in Lists!Passing(query.filter) => Wanted(i)
    BY <1>2 DEF Lists!Passing, Wanted, AsAsked
  <2>4. i \in Lists!Passing(query.filter) => Rank(i) \in Nat
    BY <1>4 DEF RanksSound
  <2>5. i \in Here <=> (i \in Lists!Passing(query.filter) /\ k < Rank(i) /\ Rank(i) <= k + m)
    BY <1>6
  <2> HIDE DEF Here
  <2>6. CASE Wanted(i)
    BY <2>1, <2>2, <2>3, <2>4, <2>5, <2>6
  <2>7. CASE ~Wanted(i)
    BY <2>1, <2>2, <2>3, <2>5, <2>7
  <2> QED  BY <2>6, <2>7
<1>8. /\ \A i : Rank(i)' = Rank(i) /\ (Wanted(i)' <=> Wanted(i))
      /\ (AsAsked' <=> AsAsked) /\ PageSize' = PageSize
  BY <1>1 DEF Rank, Lists!Place, Lists!Pinned, Lists!Ordered, Lists!Passing, Wanted, AsAsked,
              PageSize, Lists!SizeOf
<1>9. FirstShown(query.page * PageSize)'
  BY <1>1, <1>5, <1>7, <1>8 DEF FirstShown
<1>10. /\ pages \in Nat /\ Lists!PagesOf(list, total, PageSize)' = pages
       /\ Lists!Cardinality(Lists!Passing(query.filter))' = Lists!Cardinality(Lists!Passing(query.filter))
       /\ DOMAIN shown' = DOMAIN table'
  BY <1>1, <1>2, <1>3, <1>4, <1>8, PagesSuffice DEF Lists!PagesOf, Lists!Passing
<1> HIDE DEF pages
<1>11. step' = "ended" => query'.page >= pages
  BY <1>1, <1>3, <1>10
<1>12. step' \in {"shown", "ended"}
  BY <1>1
<1> QED  BY <1>1, <1>2, <1>9, <1>10, <1>11, <1>12 DEF WalkSound

\* The link to the next page asks for pages no larger and leaves no more rows out.
LEMMA WalkFollows == ASSUME WalkInv, ListInv', Lists!FollowNext PROVE WalkSound'
<1> SUFFICES ASSUME ~disturbed PROVE WalkSound'
  BY DEF Lists!FollowNext, WalkSound
<1>1. /\ step = "shown" /\ step' = "count" /\ query' = Lists!LinkTo(query.page + 1)
      /\ UNCHANGED <<list, table, pin, asked, total, shown, disturbed, held, form>>
  BY DEF Lists!FollowNext
<1>2. /\ DOMAIN shown = DOMAIN table /\ asked.size \in Nat /\ asked.filter \in BOOLEAN
      /\ query.size \in {asked.size, 0} /\ (query.filter => asked.filter)
      /\ FirstShown(query.page * PageSize)
  BY <1>1 DEF WalkInv, WalkSound
<1>3. /\ query.page \in Nat \ {0} /\ query.filter \in BOOLEAN /\ query.size \in Nat
      /\ table \in Seq(BOOLEAN)
  BY DEF WalkInv, ListInv, ListTypes
<1>4. /\ query'.page = query.page + 1 /\ query'.size \in {query.size, 0}
      /\ query'.filter \in BOOLEAN /\ (query'.filter => query.filter)
  BY <1>1, <1>3 DEF Lists!LinkTo, Lists!LinkKeepsSize, Lists!LinkKeepsFilter
<1>5. PICK p \in Nat \ {0}, m \in Nat \ {0}, n \in Nat \ {0} :
          p = query.page /\ m = PageSize /\ n = PageSize' /\ n <= m
          /\ (query'.size = query.size => n = m)
  <2>1. PageSize' = Lists!SizeOf(list, query'.size)
    BY <1>1 DEF PageSize, Lists!SizeOf
  <2>2. PageSize \in Nat \ {0} /\ Lists!SizeOf(list, query'.size) \in Nat \ {0}
        /\ Lists!SizeOf(list, query'.size) <= PageSize
    BY <1>1, PageSizes DEF WalkInv, ListInv
  <2>3. query'.size = query.size => PageSize' = PageSize
    BY <2>1 DEF PageSize
  <2> QED  BY <1>3, <2>1, <2>2, <2>3
<1>6. /\ p * n \in Nat /\ p * m \in Nat /\ p * n <= p * m
      /\ (query'.page - 1) * PageSize' = p * n
  <2>1. query'.page - 1 = p
    BY <1>4, <1>5
  <2>2. p * n \in Nat /\ p * m \in Nat
    BY PagesMultiply
  <2> QED  BY <1>5, <2>1, <2>2, PagesGrow
<1>7. ASSUME NEW i
      PROVE  /\ Rank(i)' = Lists!Place(i, Lists!Passing(query'.filter))
             /\ Rank(i) <= Rank(i)' /\ (query'.filter = query.filter => Rank(i)' = Rank(i))
             /\ (Wanted(i)' <=> Wanted(i))
  <2>1. Rank(i)' = Lists!Place(i, Lists!Passing(query'.filter)) /\ (Wanted(i)' <=> Wanted(i))
    BY <1>1 DEF Rank, Lists!Place, Lists!Pinned, Lists!Ordered, Lists!Passing, Wanted
  <2>2. Lists!Place(i, Lists!Passing(query.filter)) <= Lists!Place(i, Lists!Passing(query'.filter))
    BY <1>3, <1>4, RanksFall
  <2> QED  BY <2>1, <2>2 DEF Rank
<1>8. AsAsked' => AsAsked /\ query'.size = query.size /\ query'.filter = query.filter
  BY <1>1, <1>2, <1>3, <1>4 DEF AsAsked
<1>9. ASSUME NEW i \in DOMAIN table
      PROVE  /\ Wanted(i) /\ Rank(i)' <= p * n => shown[i] > 0
             /\ AsAsked' => shown[i] = (IF Wanted(i) /\ Rank(i)' <= p * n THEN 1 ELSE 0)
  <2>1. /\ Wanted(i) /\ Rank(i) <= p * m => shown[i] > 0
        /\ AsAsked => shown[i] = (IF Wanted(i) /\ Rank(i) <= p * m THEN 1 ELSE 0)
    BY <1>2, <1>5 DEF FirstShown
  <2>2. Wanted(i) => Rank(i) \in Nat
    <3>1. Wanted(i) => i \in Lists!Passing(query.filter)
      BY <1>2 DEF Wanted, Lists!Passing
    <3> QED  BY <1>3, <3>1, RanksCount DEF RanksSound
  <2>3. Wanted(i) => Rank(i)' \in Nat
    <3>1. RanksSound'
      BY RanksAndSizesNext DEF ListInv
    <3>2. Wanted(i) => i \in Lists!Passing(query.filter)'
      BY <1>1, <1>2, <1>4 DEF Wanted, Lists!Passing
    <3> QED  BY <3>1, <3>2 DEF RanksSound
  <2>4. Wanted(i) /\ Rank(i)' <= p * n => Rank(i) <= p * m
    BY <1>6, <1>7, <2>2, <2>3
  <2>5. AsAsked' => AsAsked /\ Rank(i)' = Rank(i) /\ p * n = p * m
    BY <1>5, <1>7, <1>8
  <2> QED  BY <2>1, <2>4, <2>5
<1>10. FirstShown((query.page - 1) * PageSize)'
  BY <1>1, <1>6, <1>7, <1>9 DEF FirstShown
<1>11. query'.size \in {asked'.size, 0} /\ (query'.filter => asked'.filter)
  BY <1>1, <1>2, <1>4
<1> QED  BY <1>1, <1>2, <1>10, <1>11 DEF WalkSound

LEMMA WalkAlways == Spec => []WalkInv
<1>1. Init => WalkInv
  BY ListInit DEF Init, Lists!Init, WalkInv, WalkSound
<1>2. ASSUME WalkInv, UNCHANGED listVars PROVE WalkSound'
  <2>1. UNCHANGED <<list, table, pin, query, asked, step, total, shown, disturbed>>
    BY <1>2 DEF listVars
  <2>2. PageSize' = PageSize /\ Lists!Passing(query.filter)' = Lists!Passing(query.filter)
    BY <2>1 DEF PageSize, Lists!SizeOf, Lists!Passing
  <2>3. \A k : FirstShown(k) => FirstShown(k)'
    BY <2>1 DEF FirstShown, Wanted, AsAsked, Rank, Lists!Place, Lists!Pinned, Lists!Ordered,
                Lists!Passing
  <2>4. Lists!PagesOf(list, total, PageSize)' = Lists!PagesOf(list, total, PageSize)
    BY <2>1, <2>2 DEF Lists!PagesOf
  <2>5. FirstShown((query.page - 1) * PageSize) => FirstShown((query.page - 1) * PageSize)'
    BY <2>1, <2>2, <2>3 DEF FirstShown
  <2>6. FirstShown(query.page * PageSize) => FirstShown(query.page * PageSize)'
    BY <2>1, <2>2, <2>3 DEF FirstShown
  <2> QED  BY <1>2, <2>1, <2>2, <2>4, <2>5, <2>6 DEF WalkInv, WalkSound
<1>3. ASSUME WalkInv, ListInv', Lists!Next PROVE WalkSound'
  <2>1. CASE Lists!Disturb \/ Lists!Leave
    BY <2>1 DEF Lists!Disturb, Lists!Leave, WalkSound
  <2>2. CASE Lists!OpenEdit \/ Lists!SubmitEdit
    <3>1. step' = "closed"
      BY <1>3, <2>2 DEF Lists!OpenEdit, Lists!SubmitEdit, WalkInv, ListInv, FormSound
    <3> QED  BY <3>1 DEF WalkSound
  <2> QED  BY <1>3, <2>1, <2>2, WalkOpens, WalkCounts, WalkFetches, WalkFollows DEF Lists!Next
<1>4. WalkInv /\ ListInv' /\ [Next]_vars => WalkInv'
  BY <1>2, <1>3, ListsPart DEF WalkInv
<1> QED  BY <1>1, <1>4, ListAlways, PTL DEF Spec

\* A user who follows the links from the first page of a list to its end has seen
\* every row that passes the filter, for any list, any number of rows and any size
\* of a page, although the links may ask for smaller pages or no filter under way;
\* where they keep both, each such row was shown once and no other was
\* (Pagination.h, the list functions of the services and the links of the views).
THEOREM WalksMissNoRow == Spec => []WalkShowsEveryRow
<1>1. ASSUME WalkInv, step = "ended", ~disturbed, NEW i \in DOMAIN shown
      PROVE  /\ Wanted(i) => shown[i] > 0
             /\ AsAsked => shown[i] = (IF Wanted(i) THEN 1 ELSE 0)
  <2>1. /\ i \in DOMAIN table /\ (query.filter => asked.filter)
        /\ FirstShown(query.page * PageSize)
        /\ total = Lists!Cardinality(Lists!Passing(query.filter))
        /\ query.page >= Lists!PagesOf(list, total, PageSize)
    BY <1>1 DEF WalkInv, WalkSound
  <2>2. /\ query.page \in Nat \ {0} /\ total \in Nat /\ table \in Seq(BOOLEAN)
        /\ PageSize \in Nat \ {0} /\ RanksSound
    BY <1>1, PageSizes, RanksCount DEF WalkInv, ListInv, ListTypes
  <2>3. PICK n \in Nat : n = Lists!PagesOf(list, total, PageSize) /\ total <= n * PageSize
    BY <2>2, PagesSuffice
  <2>4. n * PageSize <= query.page * PageSize
        /\ n * PageSize \in Nat /\ query.page * PageSize \in Nat
    <3>1. PICK p \in Nat, k \in Nat \ {0} : p = query.page /\ k = PageSize /\ n <= p
      BY <2>1, <2>2, <2>3
    <3>2. n * k <= p * k /\ n * k \in Nat /\ p * k \in Nat
      BY <3>1, PagesGrow
    <3> QED  BY <3>1, <3>2
  <2>5. Wanted(i) => Rank(i) \in Nat /\ Rank(i) <= total
    <3>1. Wanted(i) => i \in Lists!Passing(query.filter)
      BY <2>1 DEF Wanted, Lists!Passing
    <3> QED  BY <2>1, <2>2, <3>1 DEF RanksSound
  <2>6. Wanted(i) => Rank(i) <= query.page * PageSize
    BY <2>2, <2>3, <2>4, <2>5
  <2> QED  BY <2>1, <2>6 DEF FirstShown
<1>2. WalkInv => WalkShowsEveryRow
  BY <1>1 DEF WalkShowsEveryRow, Lists!WalkShowsEveryRow, Wanted, AsAsked
<1> QED  BY <1>2, WalkAlways, PTL

-----------------------------------------------------------------------------
(* The links of the catalog *)

\* What a link of pageNumbers says of its neighbours.
InOrder(nums, i) ==
    LET Gap(k) == k \in 2..(Len(nums) - 1) /\ nums[k] = -1
    IN  \/ Gap(i) /\ nums[i + 1] > nums[i - 1] + 1
        \/ Gap(i + 1)
        \/ nums[i + 1] = nums[i] + 1

\* The five parts pageNumbers joins: the first page, an ellipsis or none, the
\* pages around, an ellipsis or none, the last page.
NumberParts(a, m, b, lo, n) ==
    <<1>> \o (IF a = 1 THEN <<-1>> ELSE <<>>) \o [i \in 1..m |-> lo + i - 1]
          \o (IF b = 1 THEN <<-1>> ELSE <<>>) \o <<n>>

\* Where each of them lands.
InPlace(q, a, m, b, lo, n) ==
    /\ q \in Seq(Int) /\ Len(q) = 2 + a + m + b
    /\ q[1] = 1 /\ (a = 1 => q[2] = -1)
    /\ \A i \in 1..m : q[1 + a + i] = lo + i - 1
    /\ b = 1 => q[2 + a + m] = -1
    /\ q[2 + a + m + b] = n

LEMMA PartsInPlace ==
    ASSUME NEW a \in {0, 1}, NEW m \in Nat, NEW b \in {0, 1}, NEW lo \in Int, NEW n \in Int
    PROVE  InPlace(NumberParts(a, m, b, lo, n), a, m, b, lo, n)
<1> DEFINE A == IF a = 1 THEN <<-1>> ELSE <<>>
           M == [i \in 1..m |-> lo + i - 1]
           B == IF b = 1 THEN <<-1>> ELSE <<>>
<1>1. A \in Seq(Int) /\ Len(A) = a /\ (a = 1 => A[1] = -1)
  OBVIOUS
<1>2. M \in Seq(Int) /\ Len(M) = m /\ \A i \in 1..m : M[i] = lo + i - 1
  OBVIOUS
<1>3. B \in Seq(Int) /\ Len(B) = b /\ (b = 1 => B[1] = -1)
  OBVIOUS
<1>4. <<1>> \in Seq(Int) /\ Len(<<1>>) = 1 /\ <<1>>[1] = 1
      /\ <<n>> \in Seq(Int) /\ Len(<<n>>) = 1 /\ <<n>>[1] = n
  OBVIOUS
<1> HIDE DEF A, M, B
<1> DEFINE P == <<1>> \o A
           Q == P \o M
           R == Q \o B
           T == R \o <<n>>
<1>5. /\ P \in Seq(Int) /\ Len(P) = 1 + a
      /\ P[1] = 1 /\ (a = 1 => P[2] = -1)
  BY <1>1, <1>4, ConcatProperties
<1> HIDE DEF P
<1>6. /\ Q \in Seq(Int) /\ Len(Q) = 1 + a + m
      /\ \A i \in 1..(1 + a) : Q[i] = P[i]
      /\ \A i \in 1..m : Q[1 + a + i] = lo + i - 1
  <2>1. /\ Q \in Seq(Int) /\ Len(Q) = 1 + a + m
        /\ \A i \in 1..(1 + a + m) : Q[i] = IF i <= 1 + a THEN P[i] ELSE M[i - (1 + a)]
    BY <1>2, <1>5, ConcatProperties
  <2>2. ASSUME NEW i \in 1..m PROVE Q[1 + a + i] = lo + i - 1
    <3>1. 1 + a + i \in 1..(1 + a + m) /\ ~(1 + a + i <= 1 + a) /\ (1 + a + i) - (1 + a) = i
      OBVIOUS
    <3>2. Q[1 + a + i] = M[i]
      BY <2>1, <3>1
    <3> QED  BY <1>2, <3>2
  <2>3. ASSUME NEW i \in 1..(1 + a) PROVE Q[i] = P[i]
    <3>1. i \in 1..(1 + a + m) /\ i <= 1 + a
      OBVIOUS
    <3> QED  BY <2>1, <3>1
  <2> QED  BY <2>1, <2>2, <2>3
<1> HIDE DEF Q
<1>7. /\ R \in Seq(Int) /\ Len(R) = 1 + a + m + b
      /\ \A i \in 1..(1 + a + m) : R[i] = Q[i]
      /\ b = 1 => R[2 + a + m] = -1
  BY <1>3, <1>6, ConcatProperties
<1> HIDE DEF R
<1>8. /\ T \in Seq(Int) /\ Len(T) = 2 + a + m + b
      /\ \A i \in 1..(1 + a + m + b) : T[i] = R[i]
      /\ T[2 + a + m + b] = n
  BY <1>4, <1>7, ConcatProperties
<1> HIDE DEF T
<1>9. T[1] = 1 /\ (a = 1 => T[2] = -1)
  BY <1>5, <1>6, <1>7, <1>8
<1>10. \A i \in 1..m : T[1 + a + i] = lo + i - 1
  BY <1>6, <1>7, <1>8
<1>11. b = 1 => T[2 + a + m] = -1
  BY <1>7, <1>8
<1>12. T = NumberParts(a, m, b, lo, n)
  BY DEF T, R, Q, P, A, M, B, NumberParts
<1>13. InPlace(T, a, m, b, lo, n)
  BY <1>8, <1>9, <1>10, <1>11 DEF InPlace
<1> QED  BY <1>12, <1>13, Zenon

\* pageNumbers names the first, the current and the last page, in order, with an
\* ellipsis only where pages are left out, for any page of any number of pages.
LEMMA NumbersInOrder ==
    ASSUME NEW p \in Nat \ {0}, NEW n \in Nat, p < n
    PROVE  LET nums == Lists!PageNumbers(p, n)
           IN  {1, p, n} \subseteq Lists!ToSet(nums) /\ \A i \in 1..(Len(nums) - 1) : InOrder(nums, i)
<1> DEFINE nums == Lists!PageNumbers(p, n)
<1>1. CASE n <= 7
  <2>1. nums = [i \in 1..n |-> i]
    BY <1>1 DEF Lists!PageNumbers
  <2>2. DOMAIN nums = 1..n /\ Len(nums) = n /\ \A i \in 1..n : nums[i] = i
    BY <2>1
  <2> HIDE DEF nums
  <2>3. \A k \in {1, p, n} : k \in DOMAIN nums /\ nums[k] = k
    BY <2>2
  <2>4. {1, p, n} \subseteq Lists!ToSet(nums)
    BY <2>3 DEF Lists!ToSet
  <2>5. \A i \in 1..(Len(nums) - 1) : nums[i + 1] = nums[i] + 1
    BY <2>2
  <2> QED  BY <2>4, <2>5 DEF InOrder, nums
<1>2. CASE n > 7
  <2> DEFINE lo == Lists!AtLeast(p - 2, 2)
             hi == Lists!AtMost(p + 2, n - 1)
             a == IF p > 4 THEN 1 ELSE 0
             b == IF p < n - 3 THEN 1 ELSE 0
             m == hi - lo + 1
  <2>1. /\ a \in {0, 1} /\ b \in {0, 1} /\ m \in Nat /\ m >= 2 /\ lo \in Nat /\ hi \in Nat
        /\ 2 <= lo /\ (a = 1 => lo > 2) /\ (a = 0 => lo = 2)
        /\ hi < n /\ (b = 1 => hi < n - 1) /\ (b = 0 => hi = n - 1)
        /\ p = 1 \/ (lo <= p /\ p <= hi)
    BY <1>2 DEF Lists!AtLeast, Lists!AtMost
  <2>2. nums = NumberParts(a, m, b, lo, n)
    <3>1. Lists!AtLeast(m, 0) = m
      BY <2>1 DEF Lists!AtLeast
    <3>2. nums = <<1>> \o (IF Lists!ElidesBefore(p) THEN <<-1>> ELSE <<>>)
                      \o [i \in 1..m |-> lo + i - 1]
                      \o (IF p < n - 3 THEN <<-1>> ELSE <<>>) \o <<n>>
      <4>1. ~(n <= 7)
        BY <1>2
      <4> QED  BY <3>1, <4>1, Zenon DEF Lists!PageNumbers
    <3>3. (IF Lists!ElidesBefore(p) THEN <<-1>> ELSE <<>>) = (IF a = 1 THEN <<-1>> ELSE <<>>)
      BY DEF Lists!ElidesBefore
    <3>4. (IF p < n - 3 THEN <<-1>> ELSE <<>>) = (IF b = 1 THEN <<-1>> ELSE <<>>)
      OBVIOUS
    <3> HIDE DEF nums, lo, hi, a, b
    <3> QED  BY <3>2, <3>3, <3>4, Zenon DEF NumberParts
  <2> HIDE DEF nums, lo, hi, a, b
  <2>3. /\ nums \in Seq(Int) /\ Len(nums) = 2 + a + m + b
        /\ nums[1] = 1 /\ (a = 1 => nums[2] = -1)
        /\ \A i \in 1..m : nums[1 + a + i] = lo + i - 1
        /\ b = 1 => nums[2 + a + m] = -1
        /\ nums[2 + a + m + b] = n
    <3> HIDE DEF m
    <3>1. a \in {0, 1} /\ m \in Nat /\ b \in {0, 1} /\ lo \in Int /\ n \in Int
      BY <2>1
    <3>2. InPlace(NumberParts(a, m, b, lo, n), a, m, b, lo, n)
      BY <3>1, PartsInPlace
    <3> QED  BY <2>2, <3>2, Zenon DEF InPlace
  <2>4. {1, p, n} \subseteq Lists!ToSet(nums)
    <3>1. DOMAIN nums = 1..(2 + a + m + b)
      BY <2>3
    <3>2. \E k \in DOMAIN nums : nums[k] = p
      <4>1. CASE p = 1
        BY <2>1, <2>3, <3>1, <4>1
      <4>2. CASE lo <= p /\ p <= hi
        <5>1. p - lo + 1 \in 1..m /\ lo + (p - lo + 1) - 1 = p
          BY <2>1, <4>2
        <5>2. 1 + a + (p - lo + 1) \in DOMAIN nums
          BY <2>1, <3>1, <5>1
        <5>3. nums[1 + a + (p - lo + 1)] = p
          BY <2>3, <5>1
        <5> QED  BY <5>2, <5>3
      <4> QED  BY <2>1, <4>1, <4>2
    <3>3. 1 \in DOMAIN nums /\ 2 + a + m + b \in DOMAIN nums
      BY <2>1, <3>1
    <3> QED  BY <2>3, <3>2, <3>3 DEF Lists!ToSet
  <2>5. ASSUME NEW i \in 1..(Len(nums) - 1) PROVE InOrder(nums, i)
    <3>1. /\ i \in Nat /\ 1 <= i /\ i <= 1 + a + m + b /\ m = hi - lo + 1
      BY <2>1, <2>3
    <3>2. CASE i = 1
      <4>1. CASE a = 1
        <5>1. i + 1 \in 2..(Len(nums) - 1) /\ nums[i + 1] = -1
          BY <2>1, <2>3, <3>2, <4>1
        <5> QED  BY <5>1 DEF InOrder
      <4>2. CASE a = 0
        <5>1. 1 \in 1..m /\ 1 + a + 1 = i + 1 /\ lo = 2
          BY <2>1, <3>2, <4>2
        <5>2. nums[i + 1] = 2 /\ nums[i] = 1
          BY <2>3, <3>2, <5>1
        <5> QED  BY <5>2 DEF InOrder
      <4> QED  BY <2>1, <4>1, <4>2
    <3>3. CASE a = 1 /\ i = 2
      <4>1. 1 \in 1..m /\ 1 + a + 1 = i + 1 /\ i - 1 = 1
        BY <2>1, <3>3
      <4>2. nums[i + 1] = lo /\ nums[i - 1] = 1 /\ nums[i] = -1
        BY <2>1, <2>3, <3>3, <4>1
      <4>3. i \in 2..(Len(nums) - 1) /\ lo > 1 + 1
        BY <2>1, <2>3, <3>3
      <4> QED  BY <4>2, <4>3 DEF InOrder
    <3>4. CASE 2 + a <= i /\ i <= a + m
      <4>1. i - 1 - a \in 1..m /\ i - a \in 1..m
            /\ 1 + a + (i - 1 - a) = i /\ 1 + a + (i - a) = i + 1
        BY <2>1, <3>1, <3>4
      <4>2. nums[i] = lo + (i - 1 - a) - 1 /\ nums[i + 1] = lo + (i - a) - 1
        BY <2>3, <4>1
      <4>3. nums[i + 1] = nums[i] + 1
        BY <2>1, <3>1, <4>2
      <4> QED  BY <4>3 DEF InOrder
    <3>5. CASE i = 1 + a + m
      <4>1. CASE b = 1
        <5>1. i + 1 \in 2..(Len(nums) - 1) /\ nums[i + 1] = -1
          BY <2>1, <2>3, <3>5, <4>1
        <5> QED  BY <5>1 DEF InOrder
      <4>2. CASE b = 0
        <5>1. m \in 1..m /\ 1 + a + m = i /\ i + 1 = 2 + a + m + b /\ hi = n - 1
          BY <2>1, <3>5, <4>2
        <5>2. nums[i] = lo + m - 1 /\ nums[i + 1] = n
          BY <2>3, <5>1
        <5>3. nums[i + 1] = nums[i] + 1
          BY <2>1, <3>1, <5>1, <5>2
        <5> QED  BY <5>3 DEF InOrder
      <4> QED  BY <2>1, <4>1, <4>2
    <3>6. CASE b = 1 /\ i = 2 + a + m
      <4>1. m \in 1..m /\ i - 1 = 1 + a + m /\ i + 1 = 2 + a + m + b
        BY <2>1, <3>6
      <4>2. nums[i - 1] = lo + m - 1 /\ nums[i] = -1 /\ nums[i + 1] = n
        BY <2>3, <3>6, <4>1
      <4>3. i \in 2..(Len(nums) - 1) /\ n > nums[i - 1] + 1
        BY <2>1, <2>3, <3>1, <3>6, <4>2
      <4> QED  BY <4>2, <4>3 DEF InOrder
    <3> QED  BY <2>1, <3>1, <3>2, <3>3, <3>4, <3>5, <3>6
  <2> QED  BY <2>4, <2>5 DEF nums
<1> QED  BY <1>1, <1>2

\* The links below the catalog name the first, the current and the last page in
\* order, with an ellipsis exactly where pages are left out, for any number of
\* templates and any size of a page (Pagination.h, pageNumbers).
THEOREM CatalogLinksAreInOrder == Spec => []LinksAreInOrder
<1>1. ListInv => LinksAreInOrder
  <2> SUFFICES ASSUME ListInv, list = Lists!Catalog, step = "shown"
               PROVE  LET nums == Lists!PageNumbers(query.page,
                                      Lists!PagesOf(list, total, Lists!SizeOf(list, query.size)))
                      IN  /\ {1, query.page, Lists!PagesOf(list, total, Lists!SizeOf(list, query.size))}
                                 \subseteq Lists!ToSet(nums)
                          /\ \A i \in 1..(Len(nums) - 1) : InOrder(nums, i)
    BY DEF LinksAreInOrder, Lists!LinksAreInOrder, InOrder
  <2>1. query.page \in Nat \ {0} /\ query.size \in Nat /\ total \in Nat
    BY DEF ListInv, ListTypes
  <2>2. Lists!SizeOf(list, query.size) = Lists!CatalogSize(query.size)
    BY DEF Lists!SizeOf, Lists!Catalog, Lists!WebLists
  <2>3. Lists!CatalogSize(query.size) \in Nat \ {0}
    BY <2>1, ListAssumption DEF Lists!CatalogSize
  <2>4. PICK k \in Nat \ {0} : k = Lists!SizeOf(list, query.size)
    BY <2>2, <2>3
  <2>5. Lists!PagesOf(list, total, k) = (total + k - 1) \div k
    BY DEF Lists!PagesOf, Lists!ApiPages, Lists!CeilDiv, Lists!Catalog, Lists!WebLists
  <2>6. (total + k - 1) \div k \in Int
    BY <2>1
  <2>7. query.page < Lists!PagesOf(list, total, k)
    BY <2>4 DEF ListInv, PageBounded
  <2>8. PICK n \in Nat : n = Lists!PagesOf(list, total, k)
    BY <2>1, <2>5, <2>6, <2>7
  <2> QED  BY <2>1, <2>4, <2>7, <2>8, NumbersInOrder
<1> QED  BY <1>1, ListAlways, PTL

-----------------------------------------------------------------------------
(* RateLimit *)

LEMMA RatePart == [Next]_vars => [Rate!Next]_rateVars
<1>1. CASE UNCHANGED vars
  BY <1>1 DEF vars
<1>2. CASE RateSteps
  BY <1>2 DEF RateSteps
<1>3. CASE Next /\ ~RateSteps
  BY <1>3 DEF Next, RouteSteps, ListsSteps, UploadSteps, TemplateSteps,
              TokenSteps, MessageSteps, BodySteps, StartSteps
<1> QED  BY <1>1, <1>2, <1>3

RateTypes ==
    /\ count \in 0..(Limit + 1) /\ ttl \in 0..Window /\ restarts \in Nat
    /\ recent \in [1..Window -> Nat]

\* What the counter tells of the requests that passed since it last began.
Counted == IF count > Limit THEN Limit ELSE count

\* The latest ticks in which no key can have run out: since one did, a new one
\* was made, its EXPIRE arrived, and it has all but ttl ticks of a window behind it.
Untouched == IF ttl = 0 THEN 1 ELSE Window - ttl + 1

\* Only restarts put requests of those ticks beyond the counter; in a whole window
\* one key more has run out.
WindowCounted ==
    \A age \in 1..Window :
        /\ recent[age] <= Counted + (1 + restarts) * Limit
        /\ age <= Untouched => recent[age] <= Counted + restarts * Limit

RateInv == RateTypes /\ WindowCounted

\* What the restarts allow, as a number.
LEMMA Allowance ==
    ASSUME NEW n \in Nat
    PROVE  /\ n * Limit \in Nat
           /\ (1 + n) * Limit = n * Limit + Limit
           /\ (1 + (n + 1)) * Limit = n * Limit + Limit + Limit
           /\ (n + 1) * Limit = n * Limit + Limit
           /\ (2 + n) * Limit = n * Limit + Limit + Limit
BY RateAssumption

LEMMA RateInit == Rate!Init => RateInv
<1> SUFFICES ASSUME Rate!Init PROVE RateInv
  OBVIOUS
<1>1. count = 0 /\ ttl = 0 /\ restarts = 0 /\ recent = [age \in 1..Window |-> 0]
  BY DEF Rate!Init
<1>2. RateTypes
  BY <1>1, RateAssumption DEF RateTypes
<1>3. restarts * Limit \in Nat /\ (1 + restarts) * Limit = restarts * Limit + Limit
  BY <1>1, Allowance
<1>4. Counted = 0 /\ \A age \in 1..Window : recent[age] = 0
  BY <1>1, RateAssumption DEF Counted
<1>5. WindowCounted
  BY <1>3, <1>4, RateAssumption DEF WindowCounted
<1> QED  BY <1>2, <1>5 DEF RateInv

\* Each request within the limit is counted, and one over it is not.
LEMMA IncrStep == ASSUME RateInv, NEW c \in Calls, Rate!Incr(c) PROVE RateInv'
<1>1. /\ count' = IF count > Limit THEN count ELSE count + 1
      /\ recent' = [age \in 1..Window |->
                       recent[age] + (IF count' > Limit THEN 0 ELSE 1)]
      /\ UNCHANGED <<ttl, restarts>>
  BY DEF Rate!Incr, Rate!TooMany
<1>2. RateTypes'
  BY <1>1, RateAssumption DEF RateInv, RateTypes
<1>3. Counted' = Counted + (IF count' > Limit THEN 0 ELSE 1) /\ Counted \in Nat
  BY <1>1, RateAssumption DEF RateInv, RateTypes, Counted
<1>4. PICK x \in Nat : x = restarts * Limit /\ (1 + restarts) * Limit = x + Limit
  BY Allowance DEF RateInv, RateTypes
<1>5. Untouched' = Untouched
  BY <1>1 DEF Untouched
<1>6. ASSUME NEW age \in 1..Window
      PROVE  /\ recent'[age] <= Counted' + (x + Limit)
             /\ age <= Untouched => recent'[age] <= Counted' + x
  <2>1. recent'[age] = recent[age] + (IF count' > Limit THEN 0 ELSE 1) /\ recent[age] \in Nat
    BY <1>1 DEF RateInv, RateTypes
  <2>2. /\ recent[age] <= Counted + (x + Limit)
        /\ age <= Untouched => recent[age] <= Counted + x
    BY <1>4 DEF RateInv, WindowCounted
  <2> QED  BY <1>3, <2>1, <2>2, RateAssumption
<1>7. WindowCounted'
  BY <1>1, <1>4, <1>5, <1>6 DEF WindowCounted
<1> QED  BY <1>2, <1>7 DEF RateInv

\* An EXPIRE leaves a key its whole window.
LEMMA ExpireStep == ASSUME RateInv, Rate!ExpireArrives PROVE RateInv'
<1>1. ttl' \in {0, Window} /\ UNCHANGED <<count, recent, restarts>>
  BY DEF Rate!ExpireArrives
<1>2. RateTypes'
  BY <1>1, RateAssumption DEF RateInv, RateTypes
<1>3. Untouched' = 1
  <2>1. CASE ttl' = 0
    BY <2>1 DEF Untouched
  <2>2. CASE ttl' = Window
    BY <2>2, RateAssumption DEF Untouched
  <2> QED  BY <1>1, <2>1, <2>2
<1>4. \A age \in 1..Window : age <= 1 => age <= Untouched
  BY RateAssumption DEF RateInv, RateTypes, Untouched
<1>5. WindowCounted'
  BY <1>1, <1>3, <1>4 DEF RateInv, WindowCounted, Counted
<1> QED  BY <1>2, <1>5 DEF RateInv

\* A key runs out a window after its EXPIRE, when the requests counted before it
\* was made are all older.
LEMMA RateTickStep == ASSUME RateInv, Rate!Tick PROVE RateInv'
<1>1. /\ ttl' = IF ttl > 0 THEN ttl - 1 ELSE 0
      /\ count' = IF ttl = 1 THEN 0 ELSE count
      /\ recent' = [age \in 1..Window |-> IF age = 1 THEN 0 ELSE recent[age - 1]]
      /\ restarts' = restarts
  BY DEF Rate!Tick
<1>2. RateTypes'
  BY <1>1, RateAssumption DEF RateInv, RateTypes
<1>3. PICK x \in Nat : x = restarts * Limit /\ (1 + restarts) * Limit = x + Limit
  BY Allowance DEF RateInv, RateTypes
<1>4. Counted \in Nat /\ Counted' \in Nat /\ Counted <= Limit
      /\ (ttl = 1 => Counted' = 0) /\ (ttl # 1 => Counted' = Counted)
  BY <1>1, RateAssumption DEF RateInv, RateTypes, Counted
<1>5. /\ ttl = 1 => Untouched' = 1 /\ Untouched = Window
      /\ ttl = 0 => Untouched' = 1
      /\ ttl > 1 => Untouched' = Untouched + 1
      /\ Untouched \in Int /\ Untouched' \in Int
  BY <1>1, RateAssumption DEF RateInv, RateTypes, Untouched
<1>6. ASSUME NEW age \in 1..Window
      PROVE  /\ recent'[age] <= Counted' + (x + Limit)
             /\ age <= Untouched' => recent'[age] <= Counted' + x
  <2>1. CASE age = 1
    BY <1>1, <1>3, <1>4, <2>1, RateAssumption
  <2>2. CASE age # 1
    <3>1. age - 1 \in 1..Window /\ age \in Nat /\ Window \in Nat
      BY <2>2, RateAssumption
    <3>2. recent'[age] = recent[age - 1] /\ recent[age - 1] \in Nat
      BY <1>1, <2>2, <3>1 DEF RateInv, RateTypes
    <3>3. /\ recent[age - 1] <= Counted + (x + Limit)
          /\ age - 1 <= Untouched => recent[age - 1] <= Counted + x
      BY <1>3, <3>1 DEF RateInv, WindowCounted
    <3>4. CASE ttl = 1
      BY <1>4, <1>5, <2>2, <3>1, <3>2, <3>3, <3>4, RateAssumption
    <3>5. CASE ttl # 1
      <4>1. age <= Untouched' => age - 1 <= Untouched
        BY <1>5, <2>2, <3>1, <3>5 DEF RateInv, RateTypes
      <4> QED  BY <1>4, <3>2, <3>3, <3>5, <4>1
    <3> QED  BY <3>4, <3>5
  <2> QED  BY <2>1, <2>2
<1>7. WindowCounted'
  BY <1>1, <1>3, <1>6 DEF WindowCounted
<1> QED  BY <1>2, <1>7 DEF RateInv

\* A restart forgets at most one limit's worth.
LEMMA RestartStep == ASSUME RateInv, Rate!RedisRestarts PROVE RateInv'
<1>1. restarts' = restarts + 1 /\ ttl' = 0 /\ count' = 0 /\ recent' = recent
  BY DEF Rate!RedisRestarts
<1>2. RateTypes'
  BY <1>1, RateAssumption DEF RateInv, RateTypes
<1>3. PICK x \in Nat :
          /\ x = restarts * Limit /\ (1 + restarts) * Limit = x + Limit
          /\ restarts' * Limit = x + Limit /\ (1 + restarts') * Limit = x + Limit + Limit
  BY <1>1, Allowance DEF RateInv, RateTypes
<1>4. Counted \in Nat /\ Counted <= Limit /\ Counted' = 0 /\ Untouched' = 1
  BY <1>1, RateAssumption DEF RateInv, RateTypes, Counted, Untouched
<1>5. 1 <= Untouched
  BY RateAssumption DEF RateInv, RateTypes, Untouched
<1>6. ASSUME NEW age \in 1..Window
      PROVE  /\ recent[age] <= 0 + (x + Limit + Limit)
             /\ age <= 1 => recent[age] <= 0 + (x + Limit)
  <2>1. recent[age] \in Nat /\ recent[age] <= Counted + (x + Limit)
    BY <1>3 DEF RateInv, RateTypes, WindowCounted
  <2>2. age <= 1 => recent[age] <= Counted + x
    BY <1>3, <1>5 DEF RateInv, WindowCounted
  <2> QED  BY <1>4, <2>1, <2>2, RateAssumption
<1>7. WindowCounted'
  BY <1>1, <1>3, <1>4, <1>6 DEF WindowCounted
<1> QED  BY <1>2, <1>7 DEF RateInv

LEMMA RateAlways == Spec => []RateInv
<1>1. Init => RateInv
  BY RateInit DEF Init
<1>2. ASSUME RateInv, UNCHANGED <<count, ttl, recent, restarts>> PROVE RateInv'
  BY <1>2 DEF RateInv, RateTypes, WindowCounted, Counted, Untouched
<1>3. ASSUME RateInv, Rate!Next PROVE RateInv'
  <2>1. CASE \E c \in Calls : \/ Rate!FailOpen(c) \/ Rate!Judge(c)
                             \/ Rate!AnswerLost(c) \/ Rate!Respond(c)
    BY <1>2, <1>3, <2>1 DEF Rate!FailOpen, Rate!Judge, Rate!AnswerLost, Rate!Respond
  <2>2. CASE Rate!ExpireLost
    BY <1>2, <1>3, <2>2 DEF Rate!ExpireLost
  <2> QED  BY <1>3, <2>1, <2>2, IncrStep, ExpireStep, RateTickStep, RestartStep DEF Rate!Next
<1>4. RateInv /\ [Next]_vars => RateInv'
  BY <1>2, <1>3, RatePart DEF rateVars
<1> QED  BY <1>1, <1>4, PTL DEF Spec

\* Of the requests redis counts within the limit, at most two limits' worth come
\* in any window of any length, and one limit more for each restart of redis,
\* however INCR and EXPIRE interleave and whichever of them are lost; those that
\* fail open pass besides (RateLimitFilter.cc, doRateLimit).
THEOREM LimitHoldsTwice == Spec => []AtMostTwice
<1>1. ASSUME RateInv PROVE AtMostTwice
  <2>1. PICK x \in Nat : x = restarts * Limit /\ (1 + restarts) * Limit = x + Limit
                        /\ (2 + restarts) * Limit = x + Limit + Limit
    BY <1>1, Allowance DEF RateInv, RateTypes
  <2>2. Counted \in Nat /\ Counted <= Limit
    BY <1>1, RateAssumption DEF RateInv, RateTypes, Counted
  <2>3. Window \in 1..Window
    BY RateAssumption
  <2>4. recent[Window] <= Counted + (x + Limit) /\ recent[Window] \in Nat
    BY <1>1, <2>1, <2>3 DEF RateInv, RateTypes, WindowCounted
  <2> QED  BY <2>1, <2>2, <2>4, RateAssumption DEF AtMostTwice, Rate!AtMostTwice
<1> QED  BY <1>1, RateAlways, PTL

-----------------------------------------------------------------------------
(* The type invariant, of the parts the invariants above do not cover *)

\* The rate limit.
RateCalls ==
    /\ call \in [Calls -> [pc : {"idle", "incr", "passed", "refused"}, count : Nat]]
    /\ expiring \in BOOLEAN /\ lost \in BOOLEAN

LEMMA CallsAlways == Spec => []RateCalls
<1>1. ASSUME Rate!Init PROVE RateCalls
  <2>1. call = [c \in Calls |-> Rate!Idle] /\ expiring = FALSE /\ lost = FALSE
    BY <1>1 DEF Rate!Init
  <2>2. Rate!Idle \in [pc : {"idle", "incr", "passed", "refused"}, count : Nat]
    BY DEF Rate!Idle
  <2> QED  BY <2>1, <2>2 DEF RateCalls
<1>2. ASSUME RateCalls, RateInv, Rate!Next PROVE RateCalls'
  <2>1. Rate!Idle \in [pc : {"idle", "incr", "passed", "refused"}, count : Nat]
    BY DEF Rate!Idle
  <2>2. CASE \E c \in Calls : Rate!Incr(c)
    <3>1. PICK c \in Calls : Rate!Incr(c)
      BY <2>2
    <3>2. PICK n : /\ n = (IF count > Limit THEN count ELSE count + 1)
                   /\ call' = [call EXCEPT ![c] = [pc |-> "incr", count |-> n]]
                   /\ UNCHANGED <<expiring, lost>>
      BY <3>1 DEF Rate!Incr
    <3>3. n \in Nat
      BY <1>2, <3>2, RateAssumption DEF RateInv, RateTypes
    <3> QED  BY <1>2, <3>2, <3>3 DEF RateCalls
  <2>3. CASE \E c \in Calls : \/ Rate!FailOpen(c) \/ Rate!Judge(c)
                             \/ Rate!AnswerLost(c) \/ Rate!Respond(c)
    <3>1. PICK c \in Calls : \/ Rate!FailOpen(c) \/ Rate!Judge(c)
                            \/ Rate!AnswerLost(c) \/ Rate!Respond(c)
      BY <2>3
    <3>2. \/ call' = [call EXCEPT ![c] = Rate!Idle]
          \/ \E p \in {"passed", "refused"} : call' = [call EXCEPT ![c].pc = p]
      BY <3>1 DEF Rate!FailOpen, Rate!Judge, Rate!AnswerLost, Rate!Respond
    <3>3. expiring' \in BOOLEAN
      BY <1>2, <3>1, Zenon
         DEF RateCalls, Rate!FailOpen, Rate!Judge, Rate!AnswerLost, Rate!Respond
    <3>4. lost' \in BOOLEAN
      BY <1>2, <3>1, Zenon
         DEF RateCalls, Rate!FailOpen, Rate!Judge, Rate!AnswerLost, Rate!Respond
    <3> QED  BY <1>2, <2>1, <3>2, <3>3, <3>4 DEF RateCalls
  <2>4. CASE Rate!ExpireLost \/ Rate!ExpireArrives \/ Rate!Tick \/ Rate!RedisRestarts
    BY <1>2, <2>4
       DEF RateCalls, Rate!ExpireLost, Rate!ExpireArrives, Rate!Tick, Rate!RedisRestarts
  <2> QED  BY <1>2, <2>2, <2>3, <2>4 DEF Rate!Next
<1>3. Init => RateCalls
  BY <1>1 DEF Init
<1>4. RateCalls /\ RateInv /\ [Next]_vars => RateCalls'
  BY <1>2, RatePart DEF RateCalls, rateVars
<1> QED  BY <1>3, <1>4, RateAlways, PTL DEF Spec

\* The catalog.
CatalogAges == memoAge \in 0..Ttl /\ crashes \in 0..MaxCrashes

LEMMA AgesAlways == Spec => []CatalogAges
<1>1. Init => CatalogAges
  BY BoundAssumption DEF Init, Template!Init, CatalogAges
<1>2. ASSUME CatalogAges, Template!Next PROVE CatalogAges'
  <2>1. \/ memoAge' \in {0, memoAge} /\ crashes' = crashes
        \/ memoAge < Ttl /\ memoAge' = memoAge + 1 /\ crashes' = crashes
        \/ crashes < MaxCrashes /\ crashes' = crashes + 1 /\ memoAge' = 0
    <3>1. CASE Template!Tick \/ Template!Crash
      BY <3>1 DEF Template!Tick, Template!Crash
    <3>2. ASSUME NEW v \in Visitors, Template!List(v) PROVE memoAge' \in {0, memoAge} /\ crashes' = crashes
      BY <3>2 DEF Template!List, Template!ListFromMemo, Template!ListFromDisk, Template!ListFetch,
            Template!TreeArrives, Template!TreeFails, Template!FillCatalog
    <3>3. ASSUME NEW v \in Visitors, Template!Preview(v) \/ Template!Return(v)
          PROVE  memoAge' = memoAge /\ crashes' = crashes
      BY <3>3 DEF Template!Preview, Template!PreviewLocal, Template!PreviewArrives,
            Template!PreviewFails, Template!Return
    <3>4. ASSUME NEW v \in Visitors, Template!Home(v)
          PROVE  memoAge' = memoAge /\ crashes' = crashes
      BY <3>4 DEF Template!Home, Template!Cached, Template!HtmlArrives, Template!HtmlFails,
            Template!FillHtml, Template!ReadActive
    <3>5. ASSUME NEW v \in Visitors, NEW f, Template!Arrive(v, f)
          PROVE  memoAge' = memoAge /\ crashes' = crashes
      BY <3>5 DEF Template!Arrive
    <3> QED  BY <1>2, <3>1, <3>2, <3>3, <3>4, <3>5 DEF Template!Next
  <2> QED  BY <1>2, <2>1, BoundAssumption DEF CatalogAges
<1>3. CatalogAges /\ [Next]_vars => CatalogAges'
  BY <1>2, TemplatePart DEF CatalogAges, templateVars
<1> QED  BY <1>1, <1>3, PTL DEF Spec

\* The forms.
LEMMA BodyPart == [Next]_vars => [Body!Next]_bodyVars
<1>1. CASE UNCHANGED vars
  BY <1>1 DEF vars
<1>2. CASE BodySteps
  BY <1>2 DEF BodySteps
<1>3. CASE Next /\ ~BodySteps
  BY <1>3 DEF Next, RouteSteps, ListsSteps, UploadSteps, TemplateSteps, RateSteps,
              TokenSteps, MessageSteps, StartSteps
<1> QED  BY <1>1, <1>2, <1>3

FieldTypes == [name : Body!Names \cup {Body!Upload}, isFile : BOOLEAN,
               filename : Body!FileNames \cup {""}, data : Body!Values \cup Body!Contents]

BodyInv ==
    /\ fields \in Seq(FieldTypes) /\ Len(fields) <= MaxFields
    /\ quoted \in BOOLEAN /\ sent \in BOOLEAN /\ (~sent => body = <<>>)

LEMMA BodyAlways == Spec => []BodyInv
<1>1. Init => BodyInv
  <2>1. Init => fields = <<>> /\ quoted \in BOOLEAN /\ body = <<>> /\ sent = FALSE
    BY DEF Init, Body!Init
  <2>2. <<>> \in Seq(FieldTypes) /\ Len(<<>>) <= MaxFields
    BY BoundAssumption
  <2> QED  BY <2>1, <2>2 DEF BodyInv
<1>2. ASSUME BodyInv, Body!Next PROVE BodyInv'
  <2>1. ASSUME NEW f \in FieldTypes, Body!Enter(f) PROVE BodyInv'
    BY <1>2, <2>1, BoundAssumption DEF BodyInv, Body!Enter
  <2>2. \A n \in Body!Names, v \in Body!Values : Body!Text(n, v) \in FieldTypes
    BY DEF Body!Text, FieldTypes
  <2>3. \A f \in Body!FileNames, v \in Body!Contents : Body!File(f, v) \in FieldTypes
    BY DEF Body!File, FieldTypes
  <2>4. Body!File("", <<>>) \in FieldTypes
    BY DEF Body!File, FieldTypes, Body!Contents
  <2>5. CASE Body!Submit
    BY <1>2, <2>5 DEF BodyInv, Body!Submit
  <2> QED  BY <1>2, <2>1, <2>2, <2>3, <2>4, <2>5 DEF Body!Next
<1>3. BodyInv /\ [Next]_vars => BodyInv'
  BY <1>2, BodyPart DEF BodyInv, bodyVars
<1> QED  BY <1>1, <1>3, PTL DEF Spec

\* Only the part that takes the steps moves.
LEMMA PartAlways == Spec => [](part \in Parts)
<1>1. Init => part \in Parts
  BY DEF Init
<1>2. part \in Parts /\ [Next]_vars => (part \in Parts)'
  BY DEF Next, vars, RouteSteps, ListsSteps, UploadSteps, TemplateSteps, RateSteps,
         TokenSteps, MessageSteps, BodySteps, StartSteps
<1> QED  BY <1>1, <1>2, PTL DEF Spec

\* Every variable of the nine parts keeps its type, for every bound on sessions,
\* requests, rows, retries and starts (the modules of the parts name the code).
THEOREM PanelTypes == Spec => []TypeOK
<1>1. RouteInv => Route!TypeOK
  BY DEF RouteInv, Route!TypeOK, Methods
<1>2. ListInv => Lists!TypeOK
  BY ListAssumption DEF ListInv, ListTypes, ShownCounted, TableBounded, FormSound,
     Lists!TypeOK, Lists!AtLeast
<1>3. UploadInv => Upload!TypeOK
  BY DEF UploadInv, UploadTypes, Jobs, Keys, Objects, Upload!TypeOK, Upload!Keys, Prefixes
<1>4. CatalogInv /\ CatalogAges => Template!TypeOK
  BY DEF CatalogInv, CatalogTypes, Visits, CatalogAges, Template!TypeOK
<1>5. RateInv /\ RateCalls => Rate!TypeOK
  BY DEF RateInv, RateTypes, RateCalls, Rate!TypeOK
<1>6. TokenInv => Token!TypeOK
  BY DEF TokenInv, TabSound, Token!TypeOK
<1>7. MessageInv => Message!TypeOK
  BY DEF MessageInv, MessageTypes, Notes, Message!TypeOK
<1>8. BodyInv => Body!TypeOK
  <2>1. ASSUME BodyInv, NEW i \in DOMAIN fields
        PROVE  fields[i].name \in Body!Names \cup {Body!Upload}
    <3>1. fields[i] \in FieldTypes
      BY <2>1 DEF BodyInv
    <3> QED  BY <3>1 DEF FieldTypes
  <2> QED  BY <2>1, Zenon DEF BodyInv, Body!TypeOK
<1>9. StartInv => Start!TypeOK
  BY DEF StartInv, StartTypes, Bounded, Start!TypeOK
<1>10. /\ part \in Parts /\ RouteInv /\ ListInv /\ UploadInv /\ CatalogInv /\ CatalogAges
       /\ RateInv /\ RateCalls /\ TokenInv /\ MessageInv /\ BodyInv /\ StartInv
       => TypeOK
  BY <1>1, <1>2, <1>3, <1>4, <1>5, <1>6, <1>7, <1>8, <1>9 DEF TypeOK
<1> QED  BY <1>10, PartAlways, RouteAlways, ListAlways, UploadAlways, CatalogAlways, AgesAlways,
            RateAlways, CallsAlways, TokenAlways, MessageAlways, BodyAlways, StartAlways, PTL
=============================================================================
