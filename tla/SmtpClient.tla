----------------------------- MODULE SmtpClient -----------------------------
(***************************************************************************)
(* smtpsocket (smtp.cpp) and an smtpworker of SmtpSession at the two ends  *)
(* of a connection: dosmtp waits for a reply to every command, sends the   *)
(* headers and the body at once, and believes in the mail when it hears    *)
(* 250. The connection may break at any moment and lose what is under way  *)
(* from some point on, in the middle of a line too.                        *)
(*                                                                         *)
(* A reply is its code, whatever lines it has. Addresses are as they stand *)
(* in the commands. arrived is not in the code.                            *)
(***************************************************************************)
EXTENDS SmtpSession, SequencesExt

CONSTANTS
    Messages,      \* records: from, rcpts, user, head and body, sequences of lines
    MaxConnections

\* Of the lines of a text only those are told apart that are empty, a dot or two dots. None
\* reads as a command, and a header is never a dot.
HeadLines == {Word("other"), Word("")}
TextLines == HeadLines \union {Word("."), Word("..")}

ASSUME MessagesAssumption ==
    /\ Messages # {} /\ MaxConnections \in Nat
    /\ \A m \in Messages : /\ m.from \in Written /\ m.rcpts \in Seq(Written) /\ m.user \in BOOLEAN
                          /\ m.head \in Seq(HeadLines) /\ m.body \in Seq(TextLines)

VARIABLES
    step,          \* what dosmtp waits for a reply to
    message,
    nrcpt,         \* recipients that were sent
    toServer, toClient,
    conn,          \* "open", "closed" by the client or "broken"
    connections,
    result,        \* what dosmtp has returned
    arrived        \* what deliver was called with, and what it said

mailVars == <<step, message, nrcpt, toServer, toClient, conn, connections, result, arrived>>

Dot == Word(".")
Starts(line) == line \in {Dot, Word("..")}

-----------------------------------------------------------------------------
\* MUTANT: without the g, only the first match is replaced.
EscapedFirst(body) ==
    LET hits == {i \in 2 .. Len(body) - 1 : body[i] = Dot}
    IN  [i \in DOMAIN body |-> IF i \in hits /\ \A k \in hits : i <= k THEN Word("..") ELSE body[i]]
\* s@\r\n\.\r\n@\r\n..\r\n@g, from left to right: each match takes the line end
\* behind the dot with it, so that a dot on the next line is not matched.
Escaped(body) ==
    LET escaped[i \in DOMAIN body] ==
            IF i \in 2 .. Len(body) - 1 /\ body[i] = Dot /\ (body[i - 1] # Dot \/ escaped[i - 1] = Dot)
            THEN Word("..") ELSE body[i]
    IN  escaped
Text(m) == m.head \o Escaped(m.body)
UpToDot(text) ==
    LET dots == {i \in DOMAIN text : text[i] = Dot}
    IN  IF dots = {} THEN text ELSE SubSeq(text, 1, (CHOOSE i \in dots : \A k \in dots : i <= k) - 1)

-----------------------------------------------------------------------------
MailInit ==
    /\ step = "idle" /\ message = (CHOOSE m \in Messages : TRUE) /\ nrcpt = 0
    /\ toServer = <<>> /\ toClient = <<>> /\ conn = "closed"
    /\ connections = 0 /\ result = "nothing" /\ arrived = <<>>

Ends(verdict) ==
    /\ step' = "idle" /\ result' = verdict
    /\ conn' = IF conn = "open" THEN "closed" ELSE conn
    /\ toClient' = <<>>

\* dosmtp: connect, or SMTPERR_CONNFAIL.
dial == \E m \in Messages :
    /\ step = "idle" /\ st = "ACCEPT" /\ connections < MaxConnections
    /\ message' = m /\ connections' = connections + 1 /\ arrived' = <<>> /\ nrcpt' = 0
    /\ toServer' = <<>> /\ toClient' = <<>>
    /\ \/ conn' = "open" /\ step' = "banner" /\ result' = "nothing"
       \/ conn' = "closed" /\ step' = "idle" /\ result' = "failed"
    /\ UNCHANGED smtpVars

GoodReply == [banner |-> 220, helo |-> 250, auth |-> 235, mail |-> 250, rcpt |-> 250,
         data |-> 354, dot |-> 250]
\* MUTANT: the reply to a recipient is not looked at.
AnyRcpt(code) == step = "rcpt" \/ code = GoodReply[step]
Expected(code) == code = GoodReply[step]

\* What follows a good reply.
Following ==
    CASE step = "banner" -> "helo"
      [] step = "helo" -> IF message.user THEN "auth" ELSE "mail"
      [] step = "auth" -> "mail"
      [] step \in {"mail", "rcpt"} -> IF nrcpt < Len(message.rcpts) THEN "rcpt" ELSE "data"
      [] step = "data" -> "dot"
      [] step = "dot" -> "quit"
Sends(next) ==
    CASE next \in {"helo", "data", "quit"} -> <<Word(next)>>
      [] next = "auth" -> <<Word("auth plain text")>>
      [] next = "mail" -> <<<<"mail", message.from>>>>
      [] next = "rcpt" -> <<<<"rcpt", message.rcpts[nrcpt + 1]>>>>
      [] next = "dot" -> Append(Text(message), Dot)

\* A puts to a connection that is broken is noticed no later than the next gets.
hear ==
    /\ step # "idle" /\ toClient # <<>>
    /\ IF step = "quit" THEN Ends("sent") /\ UNCHANGED <<toServer, nrcpt>>
       ELSE IF ~ Expected(Head(toClient))
       THEN /\ Ends("failed") /\ UNCHANGED nrcpt
            /\ toServer' = IF step = "auth" /\ conn = "open" THEN Append(toServer, Word("quit")) ELSE toServer
       ELSE /\ step' = Following /\ toClient' = Tail(toClient)
            /\ toServer' = IF conn = "open" THEN toServer \o Sends(Following) ELSE toServer
            /\ nrcpt' = IF Following = "rcpt" THEN nrcpt + 1 ELSE nrcpt
            /\ UNCHANGED <<conn, result>>
    /\ UNCHANGED <<smtpVars, message, connections, arrived>>

\* gets throws: what counts is whether the mail was answered with 250.
throws ==
    /\ step # "idle" /\ toClient = <<>> /\ conn = "broken"
    /\ Ends(IF step = "quit" THEN "sent" ELSE "failed")
    /\ UNCHANGED <<smtpVars, message, nrcpt, connections, toServer, arrived>>

\* The line that the break runs through arrives as what is left of it.
breaks ==
    /\ conn = "open" /\ conn' = "broken"
    /\ \E n \in 0 .. Len(toServer) : \E rest \in {<<>>, <<Dot>>} :
        /\ rest # <<>> => n < Len(toServer) /\ Starts(toServer[n + 1])
        /\ toServer' = SubSeq(toServer, 1, n) \o rest
    /\ \E n \in 0 .. Len(toClient) : toClient' = SubSeq(toClient, 1, n)
    /\ UNCHANGED <<smtpVars, step, message, nrcpt, connections, result, arrived>>

-----------------------------------------------------------------------------
Respond(code) == toClient' = IF code # 0 /\ conn = "open" THEN Append(toClient, code) ELSE toClient

\* The worker of SmtpSession, fed by the connection.
serve ==
    \/ /\ conn = "open" /\ step = "banner" /\ toClient = <<>> /\ connect /\ Respond(220)
       /\ UNCHANGED <<toServer, arrived>>
    \/ /\ toServer # <<>> /\ toServer' = Tail(toServer) /\ UNCHANGED arrived
       /\ \E code \in Replies(Head(toServer)) : Take(Head(toServer), code) /\ Respond(code)
    \/ /\ UNCHANGED toServer
       /\ \E code \in {250, 550} :
            /\ delivered(code) /\ Respond(code)
            /\ arrived' = Append(arrived, [from |-> env["from"], rcpts |-> env["rcpt"], text |-> mailbody,
                                           user |-> Has(env, "user"), code |-> code])
    \/ /\ conn # "open" /\ lost /\ toServer' = <<>> /\ UNCHANGED <<toClient, arrived>>
Served == serve /\ UNCHANGED <<step, message, nrcpt, conn, connections, result>>

MailNext == dial \/ hear \/ throws \/ breaks \/ Served
MailSpec == SmtpInit /\ MailInit /\ [][MailNext]_<<smtpVars, mailVars>>

-----------------------------------------------------------------------------
MailTypeOK ==
    /\ step \in {"idle", "banner", "helo", "auth", "mail", "rcpt", "data", "dot", "quit"}
    /\ nrcpt \in 0 .. Len(message.rcpts) /\ conn \in {"open", "closed", "broken"}
    /\ result \in {"nothing", "sent", "failed"}

Agreed(mail) ==
    /\ mail.from = Normal[message.from] /\ mail.user = message.user
    /\ mail.rcpts = [i \in DOMAIN message.rcpts |-> Normal[message.rcpts[i]]]

Covered(body) == \A i \in DOMAIN body : body[i] = Dot => i \in 2 .. Len(body) - 1 /\ body[i - 1] # Dot

\* When dosmtp returns true the mail has been delivered, once, from its sender, to all
\* of its recipients and as the user it was to be, with its headers and body; when it
\* returns false it has not, unless the answer was lost with the connection. A body is
\* cut only at a dot that the escape has missed, one on the first or last line or
\* behind another, or where the connection breaks within a line that begins with one.
MailArrives ==
    /\ result = "sent" => Len(arrived) = 1 /\ arrived[1].code = 250
    /\ result = "failed" /\ conn # "broken" => \A i \in DOMAIN arrived : arrived[i].code = 550
    /\ Len(arrived) <= 1
    /\ \A i \in DOMAIN arrived :
         /\ Agreed(arrived[i])
         /\ \/ arrived[i].text = UpToDot(Text(message))
            \/ /\ conn = "broken" /\ IsPrefix(arrived[i].text, Text(message))
               /\ Starts(Text(message)[Len(arrived[i].text) + 1])
         /\ Covered(message.body) /\ conn # "broken" =>
              arrived[i].text = message.head \o [k \in DOMAIN message.body |->
                                    IF message.body[k] = Dot THEN Word("..") ELSE message.body[k]]

\* A mail is delivered as the client was told, both sides agree at each line whether
\* it is a command or text, and what the client of the library believes of a mail
\* it sends is so: MailAsAgreed, InStep and MailArrives.
MailsKept == MailAsAgreed /\ InStep /\ MailArrives
=============================================================================
