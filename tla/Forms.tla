------------------------------- MODULE Forms -------------------------------
(***************************************************************************)
(* Reading a form back.  The pages' forms that take files are sent as      *)
(* multipart, and two parsers read them: form::get and form::file, and     *)
(* getParam and getMultiParam of AccessController.                         *)
(*                                                                         *)
(* A body is a sequence of tokens: the delimiter, two dashes, a line break *)
(* (Break), a Content-Disposition header, and the pieces of a value.  A    *)
(* browser never makes a delimiter that occurs in a value.                 *)
(***************************************************************************)
EXTENDS Naturals, Sequences, FiniteSetsExt, SequencesExt

CONSTANT MaxFields      \* bounds the fields of a form

Token(t) == [token |-> t]
Delim  == Token("delimiter")
Dashes == Token("--")
Break  == Token("CRLF")

Names == {"email", "ids[]"}
Upload == "picture"

\* Values of text fields, one with a blank line; the names of files picked,
\* one as a field of the form is called; contents, one empty.
Values    == {<<>>, <<Token("x")>>, <<Token("y"), Break, Break, Token("y")>>}
FileNames == {"me.png", "email"}
Contents  == {<<>>, <<Token("bits")>>}

VARIABLES
    fields,     \* what the user entered, in the order of the page
    quoted,     \* the client writes its boundary in quotes (a browser does not)
    body,       \* what was sent
    sent

vars == <<fields, quoted, body, sent>>

\* filename is absent for text, and empty for a file input left alone.
Text(n, v)    == [name |-> n, isFile |-> FALSE, filename |-> "", data |-> v]
File(f, v)    == [name |-> Upload, isFile |-> TRUE, filename |-> f, data |-> v]

Init ==
    /\ fields = <<>> /\ quoted \in BOOLEAN
    /\ body = <<>> /\ sent = FALSE

Enter(field) ==
    /\ ~sent /\ Len(fields) < MaxFields
    /\ fields' = Append(fields, field)
    /\ UNCHANGED <<quoted, body, sent>>

\* What the browser makes of the fields.
Header(f)  == [disposition |-> f.name, isFile |-> f.isFile, filename |-> f.filename]
Encoded(f) == <<Delim, Break, Header(f), Break, Break>> \o f.data \o <<Break>>

Submit ==
    /\ ~sent /\ fields # <<>> /\ sent' = TRUE
    /\ body' = FlattenSeq([i \in DOMAIN fields |-> Encoded(fields[i])]) \o <<Delim, Dashes, Break>>
    /\ UNCHANGED <<fields, quoted>>

Next ==
    \/ \E n \in Names, v \in Values : Enter(Text(n, v))
    \/ \E f \in FileNames, v \in Contents : Enter(File(f, v))
    \/ Enter(File("", <<>>))
    \/ Submit

-----------------------------------------------------------------------------
\* std::string::find: the first position from p on where what stands, 0 if none.
Find(s, what, p) ==
    LET at == {q \in p..(Len(s) - Len(what) + 1) : SubSeq(s, q, q + Len(what) - 1) = what}
    IN  IF at = {} THEN 0 ELSE Min(at)

IsHeader(token) == "disposition" \in DOMAIN token
HeadersOf(s, from, to) == {s[i] : i \in {j \in from..(to - 1) : IsHeader(s[j])}}

\* The blank line that ends the headers read from p, and the end of the value.
Blank(s, p) == Find(s, <<Break, Break>>, p)

\* Mutant: the line break before the delimiter is left in the value.
EndWithBreak(s, p) == Find(s, <<Delim>>, p)

End(s, p) == Find(s, <<Break, Delim>>, p)

(* FormHelper.h *)

\* parseMultipart from a delimiter at p on; a part without a name is skipped.
parseMultipart(s) ==
    LET from[p \in 0..Len(s)] ==
            LET head == Blank(s, p + 1)
                next == IF head = 0 THEN 0 ELSE End(s, head + 2)
            IN  IF p = 0 \/ p = Len(s) THEN <<>>
                ELSE IF s[p + 1] = Dashes \/ next = 0 THEN <<>>
                ELSE [i \in 1..1 |->
                         LET h == CHOOSE t \in HeadersOf(s, p + 1, head) : TRUE
                         IN  [name |-> h.disposition, isFile |-> h.isFile,
                              filename |-> h.filename,
                              data |-> SubSeq(s, head + 2, next - 1)]]
                     \o from[Find(s, <<Delim>>, next)]
    IN  from[Find(s, <<Delim>>, 1)]

First(s) == IF s = <<>> THEN <<>> ELSE Head(s)
Data(parts) == [i \in DOMAIN parts |-> parts[i].data]

\* form::get and form::file.
get(key) ==
    First(Data(SelectSeq(parseMultipart(body), LAMBDA p : ~p.isFile /\ p.name = key)))

\* Mutant: an input left empty counts as an upload.
PickedAny(p, key) == p.isFile /\ p.name = key

Picked(p, key) == p.isFile /\ p.name = key /\ p.filename # "" /\ p.data # <<>>

file(key) == First(Data(SelectSeq(parseMultipart(body), LAMBDA p : Picked(p, key))))

(* AccessController.cc *)

\* multipartBoundary drops a quote at the end and not the one at the start:
\* what it looks for is then not there.
multipartBoundary == IF quoted THEN Token("\"delimiter") ELSE Delim

\* name="key" is looked for in all of the headers: it is also found in
\* filename="key".
NameAttr(h, key) == h.disposition = key \/ (h.isFile /\ h.filename = key)

parseMultipartAll(s, boundary, key) ==
    LET from[p \in 0..Len(s)] ==
            LET head == Blank(s, p + 1)
                end  == IF head = 0 THEN 0 ELSE Find(s, <<Break, boundary>>, head + 2)
                next == Find(s, <<boundary>>, p + 1)
            IN  IF p = 0 \/ head = 0 THEN <<>>
                ELSE IF \A h \in HeadersOf(s, p + 1, head) : ~NameAttr(h, key) THEN from[next]
                ELSE IF end = 0 THEN <<>>
                ELSE <<SubSeq(s, head + 2, end - 1)>> \o from[next]
    IN  from[Find(s, <<boundary>>, 1)]

getParam(key) == First(parseMultipartAll(body, multipartBoundary, key))

getMultiParam(key) == parseMultipartAll(body, multipartBoundary, key)

-----------------------------------------------------------------------------
Entered(key) == Data(SelectSeq(fields, LAMBDA f : ~f.isFile /\ f.name = key))

TypeOK ==
    /\ \A i \in DOMAIN fields : fields[i].name \in Names \cup {Upload}
    /\ Len(fields) <= MaxFields /\ (~sent => body = <<>>)
    /\ quoted \in BOOLEAN /\ sent \in BOOLEAN

\* FormHelper.h, which CsrfFilter and the controllers use, reads back what was
\* entered, whatever files were picked or left out before it; an input left
\* empty is no upload and takes no picture away.  AccessController's parser
\* reads the same from a browser, unless a file is called like a field.
FormsReadBack ==
    sent =>
        /\ file(Upload) = First(Data(SelectSeq(fields, LAMBDA f : f.isFile /\ f.data # <<>>)))
        /\ \A n \in Names :
               /\ get(n) = First(Entered(n))
               /\ \/ quoted
                  \/ \E i \in DOMAIN fields : fields[i].filename = n
                  \/ getParam(n) = get(n) /\ getMultiParam(n) = Entered(n)
=============================================================================
