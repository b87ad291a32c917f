---------------------------- MODULE SmtpSession ----------------------------
(***************************************************************************)
(* What an smtpworker does with one connection after another (smtpd.cpp):  *)
(* the commands, AUTH in the middle of them, the body, delivery, and the   *)
(* loss of the connection at any line. How connections are accepted and    *)
(* counted is in WorkerPool.                                               *)
(*                                                                         *)
(* A line is a verb and an argument; what a line is taken for depends on   *)
(* the state. The verdicts of authplain, checkrecipient and deliver, which *)
(* derived classes override, are arbitrary. client is not in the code: it  *)
(* is what the other side may conclude from its lines and the replies.     *)
(***************************************************************************)
EXTENDS Naturals, Sequences, Functions

CONSTANTS
    Written,     \* the arguments of MAIL FROM and RCPT TO, as they are written
    Normal,      \* [Written -> STRING]: what normalizeaddr makes of them
    MaxRcpts, MaxBody  \* bounds on the recipients and lines of a mail

ASSUME MailBounds == MaxRcpts \in Nat /\ MaxBody \in Nat

Address(verb) == {verb} \X Written
Word(verb) == <<verb, "">>
Lines == Address("mail") \union Address("rcpt") \union
         {Word(v) : v \in {"helo", "data", "auth plain", "auth plain text", "auth login",
                           "quit", ".", "", "other"}}

VARIABLES
    st,        \* "ACCEPT" or the state SMTP_...; "DELIVER" inside deliver
    secrets,   \* lines AUTH is still to read
    env,       \* its members, by their names
    mailbody,
    client

smtpVars == <<st, secrets, env, mailbody, client>>

Has(f, k) == k \in DOMAIN f

NewClient == [mode |-> "command", user |-> FALSE, from |-> "", rcpts |-> <<>>, text |-> <<>>]

\* The locals of the loop over the connections.
Hungup ==
    /\ st' = "ACCEPT" /\ secrets' = 0
    /\ env' = <<>> /\ mailbody' = <<>>
    /\ client' = NewClient

SmtpInit ==
    /\ st = "ACCEPT" /\ secrets = 0
    /\ env = <<>> /\ mailbody = <<>>
    /\ client = NewClient

\* The envelope with one member set.
WithMember(e, k, v) == [m \in DOMAIN e \union {k} |-> IF m = k THEN v ELSE e[m]]

mainloop(e) == WithMember(e, "transaction-id", TRUE)

connect ==
    /\ st = "ACCEPT"
    /\ st' = "WAITHELO"
    /\ env' = mainloop([f \in {"ip"} |-> TRUE])
    /\ UNCHANGED <<secrets, mailbody, client>>

\* What the client makes of a reply to a line.
Heard(line, code) ==
    client' = [mode |-> CASE code = 334 -> "secret" [] code = 354 -> "data" [] OTHER -> "command",
               user |-> client.user \/ code = 235,
               from |-> IF code = 250 /\ line[1] = "mail" THEN line[2] ELSE client.from,
               rcpts |-> IF code = 250 /\ line[1] = "mail" THEN <<>>
                         ELSE IF code = 250 /\ line[1] = "rcpt" THEN Append(client.rcpts, line[2])
                         ELSE client.rcpts,
               text |-> IF code = 354 THEN <<>> ELSE client.text]

Commands == {"WAITHELO", "WAITMAILFROM", "WAITRCPT", "WAITRCPTORDATA"}
Listening == st \in Commands /\ secrets = 0

(***************************************************************************)
(* Commands                                                                *)
(***************************************************************************)
quit(code) ==
    code = 221 /\ Listening /\ Hungup

\* AUTH PLAIN with its argument asks for no line, without it for one, AUTH
\* LOGIN for two.
Credentials(line) ==
    CASE line[1] = "auth plain text" -> 0
      [] line[1] = "auth plain" -> 1
      [] line[1] = "auth login" -> 2
      [] OTHER -> 3
IsAuth(line) == Credentials(line) < 3

authplain(line, code) ==
    /\ code # 334 /\ Heard(line, code)
    /\ env' = IF code = 235 THEN WithMember(env, "user", TRUE) ELSE env
    /\ secrets' = 0

auth(line, code) ==
    /\ code \in {235, 334, 535} /\ Listening /\ IsAuth(line)
    /\ IF Credentials(line) = 0 THEN authplain(line, code)
       ELSE secrets' = Credentials(line) /\ code = 334 /\ Heard(line, code) /\ UNCHANGED env
    /\ UNCHANGED <<st, mailbody>>

\* Whatever the line says.
secret(line, code) ==
    /\ code \in {235, 334, 535} /\ secrets > 0
    /\ IF secrets = 1 THEN authplain(line, code)
       ELSE secrets' = secrets - 1 /\ code = 334 /\ Heard(line, code) /\ UNCHANGED env
    /\ UNCHANGED <<st, mailbody>>

Command(line, states, verb, code) ==
    /\ Listening /\ st \in states /\ line[1] = verb
    /\ Heard(line, code)
    /\ UNCHANGED <<secrets, mailbody>>

helo(line, code) ==
    /\ code = 250 /\ Command(line, {"WAITHELO"}, "helo", code)
    /\ st' = "WAITMAILFROM"
    /\ env' = WithMember(env, "helo", TRUE)

mailFrom(line, code) ==
    /\ code = 250 /\ Command(line, {"WAITMAILFROM"}, "mail", code)
    /\ st' = "WAITRCPT"
    /\ env' = WithMember(env, "from", Normal[line[2]])

data(line, code) ==
    /\ code = 354 /\ Command(line, {"WAITRCPTORDATA"}, "data", code)
    /\ st' = "DATA"
    /\ UNCHANGED env

rcptTo(line, code) ==
    /\ code \in {250, 550} /\ Command(line, {"WAITRCPT", "WAITRCPTORDATA"}, "rcpt", code)
    /\ LET rcpts == IF Has(env, "rcpt") THEN env["rcpt"] ELSE <<>> IN
       IF code = 250
       THEN /\ Len(rcpts) < MaxRcpts
            /\ env' = WithMember(env, "rcpt", Append(rcpts, Normal[line[2]]))
            /\ st' = "WAITRCPTORDATA"
       ELSE UNCHANGED <<st, env>>

Known(line) ==
    \/ IsAuth(line) \/ line[1] \in {"quit", ""}
    \/ st = "WAITHELO" /\ line[1] = "helo"
    \/ st = "WAITMAILFROM" /\ line[1] = "mail"
    \/ st \in {"WAITRCPT", "WAITRCPTORDATA"} /\ line[1] = "rcpt"
    \/ st = "WAITRCPTORDATA" /\ line[1] = "data"

unknown(line, code) ==
    /\ code = 500 /\ Listening /\ ~ Known(line)
    /\ Heard(line, code)
    /\ UNCHANGED <<st, secrets, env, mailbody>>

(***************************************************************************)
(* The body                                                                *)
(***************************************************************************)
empty(line, code) ==
    /\ code = 0 /\ Listening /\ line[1] = ""
    /\ UNCHANGED smtpVars

bodyLine(line, code) ==
    /\ code = 0 /\ st = "DATA" /\ line[1] # "."
    /\ mailbody' = Append(mailbody, line)
    /\ client' = [client EXCEPT !.text = Append(@, line)]
    /\ UNCHANGED <<st, secrets, env>>

dot(line, code) ==
    /\ code = 0 /\ st = "DATA" /\ line[1] = "."
    /\ st' = "DELIVER"
    /\ UNCHANGED <<secrets, env, mailbody, client>>

\* MUTANT: the recipients stay for the next mail.
ForgetSender == Restrict(env, DOMAIN env \ {"from", "transaction-id"})

Forget == Restrict(env, DOMAIN env \ {"rcpt", "from", "transaction-id"})

\* MUTANT: the state is not left, as if the client went on with the body.
StayInData == st' = "DATA"

NextMail == st' = "WAITMAILFROM"

\* deliver returns, with whatever result: 250 or 550, and the next mail.
delivered(code) ==
    /\ st = "DELIVER" /\ NextMail
    /\ env' = mainloop(Forget)
    /\ mailbody' = <<>>
    /\ code \in {250, 550} /\ Heard(Word("."), code)
    /\ UNCHANGED secrets

\* gets returns what there is, at the end of the stream perhaps nothing, and
\* throws when it is called again.
lost == st \notin {"ACCEPT", "DELIVER"} /\ Hungup

Take(line, code) ==
    \/ auth(line, code) \/ secret(line, code) \/ helo(line, code) \/ mailFrom(line, code)
    \/ rcptTo(line, code) \/ data(line, code) \/ unknown(line, code) \/ empty(line, code)
    \/ bodyLine(line, code) \/ dot(line, code)
    \/ line[1] = "quit" /\ quit(code)

\* The replies there can be to a line, 0 for none.
Replies(line) ==
    IF st = "DATA" THEN {0}
    ELSE IF secrets > 0 \/ IsAuth(line) THEN {235, 334, 535}
    ELSE IF Known(line) THEN {0, 221, 250, 354, 550}
    ELSE {500}

SmtpNext ==
    \/ connect \/ lost
    \/ \E code \in {250, 550} : delivered(code)
    \/ \E line \in Lines : \E code \in Replies(line) : Take(line, code) /\ Len(mailbody') <= MaxBody

SmtpSpec == SmtpInit /\ [][SmtpNext]_smtpVars

-----------------------------------------------------------------------------
EnvelopeMembers == {"ip", "helo", "from", "rcpt", "transaction-id"}

SmtpTypeOK ==
    /\ st \in Commands \union {"ACCEPT", "DATA", "DELIVER"}
    /\ secrets \in 0 .. 2
    /\ DOMAIN env \subseteq EnvelopeMembers \union {"user"}
    /\ mailbody \in Seq(Lines \union {Word("..")})
    /\ client.mode \in {"command", "secret", "data"}

\* A mail is delivered with the sender, the recipients and the lines that the
\* client was told are taken since the sender was, in their order and with
\* nothing of an earlier mail, and as the user it authenticated as. It has a
\* recipient, and the members that smtpd.h says should be present.
MailAsAgreed ==
    st = "DELIVER" =>
        /\ EnvelopeMembers \subseteq DOMAIN env /\ env["rcpt"] # <<>>
        /\ env["from"] = Normal[client.from]
        /\ env["rcpt"] = [i \in DOMAIN client.rcpts |-> Normal[client.rcpts[i]]]
        /\ mailbody = client.text
        /\ Has(env, "user") <=> client.user

\* Whether the next line is a command, a credential or text, the two sides
\* agree: a body is never executed, nor a command mailed.
InStep ==
    /\ st = "DATA" <=> client.mode = "data" /\ st # "DELIVER"
    /\ secrets > 0 <=> client.mode = "secret"
=============================================================================
