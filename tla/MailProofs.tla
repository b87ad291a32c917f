----------------------------- MODULE MailProofs -----------------------------
(***************************************************************************)
(* For every set of addresses, every set of mails and every bound: what a  *)
(* mail session delivers is what it has agreed to, and what the client of  *)
(* the library believes of a mail is so.                                   *)
(***************************************************************************)
EXTENDS SmtpClient, Induction, SequenceTheorems, TLAPS

(***************************************************************************)
(* The session                                                             *)
(***************************************************************************)
AnyLine == Lines \union {Word("..")}
AllNormal(rcpts) == [i \in DOMAIN rcpts |-> Normal[rcpts[i]]]
Client == [mode : {"command", "secret", "data"}, user : BOOLEAN, from : Written \union {""},
           rcpts : Seq(Written), text : Seq(AnyLine)]
HasRcpt == {"WAITRCPTORDATA", "DATA", "DELIVER"}
HasFrom == HasRcpt \union {"WAITRCPT"}

\* What env holds in each state, and what the client knows of it.
EnvInv ==
    /\ DOMAIN env \subseteq EnvelopeMembers \union {"user"}
    /\ st # "ACCEPT" => {"ip", "transaction-id"} \subseteq DOMAIN env
    /\ st \notin {"ACCEPT", "WAITHELO"} => Has(env, "helo")
    /\ st \in HasFrom => Has(env, "from") /\ env["from"] = Normal[client.from]
    /\ Has(env, "rcpt") <=> st \in HasRcpt
    /\ st \in HasRcpt => env["rcpt"] = AllNormal(client.rcpts) /\ client.rcpts # <<>>
    /\ st = "WAITRCPT" => client.rcpts = <<>>
    /\ Has(env, "user") <=> client.user
    /\ st = "ACCEPT" => client = NewClient

SmtpInv ==
    /\ st \in Commands \union {"ACCEPT", "DATA", "DELIVER"} /\ secrets \in 0 .. 2
    /\ mailbody \in Seq(AnyLine) /\ client \in Client
    /\ InStep /\ EnvInv
    /\ secrets > 0 => st \in Commands
    /\ mailbody = IF st \in {"DATA", "DELIVER"} THEN client.text ELSE <<>>

-----------------------------------------------------------------------------
LEMMA LineIs ==
    ASSUME NEW line \in AnyLine
    PROVE  /\ line[1] \in {"mail", "rcpt"} => line[2] \in Written
           /\ line[1] \notin {"mail", "rcpt"} => line = Word(line[1])
<1>1. CASE line \in Address("mail") \union Address("rcpt")
  BY <1>1 DEF Address
<1>2. CASE line \notin Address("mail") \union Address("rcpt")
  <2>1. PICK v \in {"helo", "data", "auth plain", "auth plain text", "auth login", "quit", ".", "", "other", ".."} : line = Word(v)
    BY <1>2 DEF AnyLine, Lines
  <2> QED
    BY <2>1 DEF Word
<1> QED
  BY <1>1, <1>2

LEMMA NormalAppend ==
    ASSUME NEW rcpts \in Seq(Written), NEW r \in Written
    PROVE  AllNormal(Append(rcpts, r)) = Append(AllNormal(rcpts), Normal[r])
<1>1. Append(rcpts, r) \in Seq(Written) /\ Len(Append(rcpts, r)) = Len(rcpts) + 1 /\ Len(rcpts) \in Nat
  OBVIOUS
<1>2. AllNormal(rcpts) = [i \in 1 .. Len(rcpts) |-> Normal[rcpts[i]]] /\ Len(AllNormal(rcpts)) = Len(rcpts)
  BY DEF AllNormal
<1>3. AllNormal(Append(rcpts, r)) = [i \in 1 .. Len(rcpts) + 1 |-> Normal[Append(rcpts, r)[i]]]
  BY <1>1 DEF AllNormal
<1>4. Append(AllNormal(rcpts), Normal[r])
        = [i \in 1 .. Len(rcpts) + 1 |-> IF i = Len(rcpts) + 1 THEN Normal[r] ELSE Normal[rcpts[i]]]
  BY <1>1, <1>2 DEF AllNormal
<1>5. \A i \in 1 .. Len(rcpts) + 1 :
         Normal[Append(rcpts, r)[i]] = IF i = Len(rcpts) + 1 THEN Normal[r] ELSE Normal[rcpts[i]]
  BY <1>1
<1> QED
  BY <1>3, <1>4, <1>5

LEMMA ConnectInv == ASSUME SmtpInv, connect PROVE SmtpInv'
<1> DEFINE ip == [f \in {"ip"} |-> TRUE]
<1>1. env' = WithMember(ip, "transaction-id", TRUE) /\ DOMAIN ip = {"ip"}
  BY DEF connect, mainloop
<1>2. DOMAIN env' = {"ip", "transaction-id"}
  BY <1>1 DEF WithMember
<1>3. client = NewClient /\ client' = NewClient /\ st = "ACCEPT" /\ st' = "WAITHELO" /\ secrets' = secrets /\ mailbody' = mailbody
  BY DEF connect, SmtpInv, EnvInv
<1>4. EnvInv'
  BY <1>2, <1>3 DEF EnvInv, Has, HasFrom, HasRcpt, NewClient, EnvelopeMembers
<1> QED
  BY <1>3, <1>4 DEF SmtpInv, InStep, Commands, NewClient, Client

LEMMA HungupInv == ASSUME Hungup PROVE SmtpInv'
<1>1. client' \in Client
  <2>1. <<>> \in Seq(Written) /\ <<>> \in Seq(AnyLine)
    OBVIOUS
  <2> QED
    BY <2>1 DEF Hungup, NewClient, Client
<1>2. DOMAIN env' = {}
  BY DEF Hungup
<1>3. EnvInv'
  BY <1>2 DEF Hungup, EnvInv, Has, HasFrom, HasRcpt, NewClient
<1> QED
  <2>1. st' = "ACCEPT" /\ secrets' = 0 /\ mailbody' = <<>> /\ client'.mode = "command"
    BY DEF Hungup, NewClient
  <2> QED
    BY <1>1, <1>3, <2>1 DEF SmtpInv, InStep

LEMMA HeardIs ==
    ASSUME client \in Client, NEW line \in AnyLine, NEW code \in Nat, Heard(line, code)
    PROVE  /\ client' \in Client
           /\ client'.mode = IF code = 334 THEN "secret" ELSE IF code = 354 THEN "data" ELSE "command"
           /\ client'.user = (client.user \/ code = 235)
           /\ code # 235 => client'.user = client.user
           /\ code # 354 => client'.text = client.text
           /\ code = 354 => client'.text = <<>>
           /\ code # 250 \/ line[1] # "mail" => client'.from = client.from
           /\ code # 250 \/ line[1] \notin {"mail", "rcpt"} => client'.rcpts = client.rcpts
           /\ code = 250 /\ line[1] = "mail" => client'.from = line[2] /\ client'.rcpts = <<>>
           /\ code = 250 /\ line[1] = "rcpt" => client'.rcpts = Append(client.rcpts, line[2])
<1> DEFINE mode == CASE code = 334 -> "secret" [] code = 354 -> "data" [] OTHER -> "command"
           user == client.user \/ code = 235
           from == IF code = 250 /\ line[1] = "mail" THEN line[2] ELSE client.from
           rcpts == IF code = 250 /\ line[1] = "mail" THEN <<>>
                    ELSE IF code = 250 /\ line[1] = "rcpt" THEN Append(client.rcpts, line[2])
                    ELSE client.rcpts
           text == IF code = 354 THEN <<>> ELSE client.text
<1>1. client' = [mode |-> mode, user |-> user, from |-> from, rcpts |-> rcpts, text |-> text]
  BY DEF Heard
<1>2. mode = (IF code = 334 THEN "secret" ELSE IF code = 354 THEN "data" ELSE "command")
  OBVIOUS
<1>3. user \in BOOLEAN
  OBVIOUS
<1>4. from \in Written \union {""} /\ rcpts \in Seq(Written)
  <2>1. client.from \in Written \union {""} /\ client.rcpts \in Seq(Written)
    BY DEF Client
  <2>2. <<>> \in Seq(Written)
    OBVIOUS
  <2>3. line[1] \in {"mail", "rcpt"} => line[2] \in Written
    BY LineIs
  <2>4. line[2] \in Written => Append(client.rcpts, line[2]) \in Seq(Written)
    BY <2>1, AppendProperties
  <2> QED
    BY <2>1, <2>2, <2>3, <2>4
<1>5. text \in Seq(AnyLine)
  <2>1. client.text \in Seq(AnyLine)
    BY DEF Client
  <2>2. <<>> \in Seq(AnyLine)
    OBVIOUS
  <2> QED
    BY <2>1, <2>2
<1>6. /\ client'.mode = mode /\ client'.user = user /\ client'.from = from
      /\ client'.rcpts = rcpts /\ client'.text = text
  <2> HIDE DEF mode, user, from, rcpts, text
  <2> QED
    BY <1>1
<1>7. client' \in Client
  <2>1. mode \in {"command", "secret", "data"}
    BY <1>2
  <2> HIDE DEF mode, user, from, rcpts, text
  <2> QED
    BY <1>1, <1>3, <1>4, <1>5, <2>1 DEF Client
<1>8. client'.mode = IF code = 334 THEN "secret" ELSE IF code = 354 THEN "data" ELSE "command"
  BY <1>2, <1>6
<1>9. code # 250 \/ line[1] # "mail" => client'.from = client.from
  BY <1>6
<1>10. code # 250 \/ line[1] \notin {"mail", "rcpt"} => client'.rcpts = client.rcpts
  BY <1>6
<1>11. code = 250 /\ line[1] = "mail" => client'.from = line[2] /\ client'.rcpts = <<>>
  BY <1>6
<1>12. code = 250 /\ line[1] = "rcpt" => client'.rcpts = Append(client.rcpts, line[2])
  BY <1>6
<1>13. client'.user = (client.user \/ code = 235)
  BY <1>6
<1>14. (code # 354 => client'.text = client.text) /\ (code = 354 => client'.text = <<>>)
  BY <1>6
<1>15. code # 235 => client'.user = client.user
  BY <1>13 DEF Client
<1> QED
  BY <1>7, <1>8, <1>9, <1>10, <1>11, <1>12, <1>13, <1>14, <1>15

LEMMA AuthplainInv ==
    ASSUME SmtpInv, NEW line \in AnyLine, NEW code \in {235, 334, 535}, authplain(line, code),
           UNCHANGED <<st, mailbody>>, st \in Commands
    PROVE  SmtpInv'
<1>1. Heard(line, code) /\ code # 334 /\ secrets' = 0 /\ client \in Client /\ code \in Nat
  BY DEF authplain, SmtpInv
<1>2. /\ client' \in Client /\ client'.mode = "command" /\ client'.from = client.from
      /\ client'.rcpts = client.rcpts /\ client'.text = client.text
  BY <1>1, HeardIs
<1>3. client'.user = (client.user \/ code = 235)
  BY <1>1, HeardIs
<1>4. /\ \A m \in DOMAIN env : m # "user" => m \in DOMAIN env' /\ env'[m] = env[m]
      /\ DOMAIN env' \subseteq DOMAIN env \union {"user"}
      /\ "user" \in DOMAIN env' <=> "user" \in DOMAIN env \/ code = 235
  BY DEF authplain, WithMember
<1>5. EnvInv'
  <2> USE <1>2, <1>4 DEF SmtpInv, EnvInv, Has
  <2>1. (st \in HasFrom => Has(env, "from") /\ env["from"] = Normal[client.from])'
    OBVIOUS
  <2>2. (st \in HasRcpt => env["rcpt"] = AllNormal(client.rcpts) /\ client.rcpts # <<>>)'
    OBVIOUS
  <2>3. (Has(env, "user") <=> client.user)'
    BY <1>3
  <2>4. (Has(env, "rcpt") <=> st \in HasRcpt)'
    OBVIOUS
  <2> QED
    BY <2>1, <2>2, <2>3, <2>4 DEF Commands
<1> QED
  BY <1>1, <1>2, <1>5 DEF SmtpInv, InStep, Commands

\* A reply that the session goes on after as before.
LEMMA SameInv ==
    ASSUME SmtpInv, NEW line \in AnyLine, NEW code \in Nat, Heard(line, code),
           code \in {334, 500, 550}, UNCHANGED <<st, env, mailbody>>, st \in Commands,
           secrets' \in 0 .. 2, secrets' > 0 <=> code = 334
    PROVE  SmtpInv'
<1>1. /\ client' \in Client /\ client'.mode = (IF code = 334 THEN "secret" ELSE "command")
      /\ client'.from = client.from /\ client'.rcpts = client.rcpts /\ client'.text = client.text
      /\ client'.user = client.user
  BY HeardIs DEF SmtpInv
<1>2. EnvInv'
  <2> USE <1>1 DEF SmtpInv, EnvInv, Has
  <2>1. (Has(env, "user") <=> client.user)'
    OBVIOUS
  <2> QED
    BY <2>1 DEF Commands
<1> QED
  BY <1>1, <1>2 DEF SmtpInv, InStep, Commands

LEMMA AuthInv ==
    ASSUME SmtpInv, NEW line \in AnyLine, NEW code \in Nat, auth(line, code) \/ secret(line, code)
    PROVE  SmtpInv'
<1>1. code \in {235, 334, 535} /\ UNCHANGED <<st, mailbody>>
  BY DEF auth, secret
<1>2. st \in Commands
  BY DEF auth, secret, Listening, SmtpInv
<1>3. CASE authplain(line, code)
  BY <1>1, <1>2, <1>3, AuthplainInv
<1>4. CASE ~ authplain(line, code)
  <2>1. code = 334 /\ Heard(line, code) /\ UNCHANGED env
    BY <1>4 DEF auth, secret
  <2>2. secrets' \in 1 .. 2
    <3>1. CASE auth(line, code)
      <4>1. Credentials(line) \in 0 .. 3
        BY DEF Credentials
      <4> QED
        BY <1>4, <3>1, <4>1 DEF auth, IsAuth
    <3>2. CASE secret(line, code)
      BY <1>4, <3>2 DEF secret, SmtpInv
    <3> QED
      BY <3>1, <3>2
  <2> QED
    BY <1>1, <1>2, <2>1, <2>2, SameInv
<1> QED
  BY <1>3, <1>4

LEMMA HeloInv == ASSUME SmtpInv, NEW line \in AnyLine, NEW code \in Nat, helo(line, code) PROVE SmtpInv'
<1>1. /\ st = "WAITHELO" /\ st' = "WAITMAILFROM" /\ secrets = 0 /\ secrets' = 0 /\ mailbody' = mailbody
      /\ Heard(line, code) /\ code = 250 /\ line[1] = "helo"
  BY DEF helo, Command, Listening
<1>2. /\ client' \in Client /\ client'.mode = "command" /\ client'.user = client.user
  BY <1>1, HeardIs DEF SmtpInv
<1>3. DOMAIN env' = DOMAIN env \union {"helo"}
  BY DEF helo, WithMember
<1>4. EnvInv'
  <2> USE <1>1, <1>2, <1>3 DEF SmtpInv, EnvInv, Has, HasFrom, HasRcpt
  <2>1. (Has(env, "user") <=> client.user)'
    OBVIOUS
  <2> QED
    BY <2>1 DEF EnvelopeMembers
<1> QED
  BY <1>1, <1>2, <1>4 DEF SmtpInv, InStep, Commands

LEMMA MailFromInv ==
    ASSUME SmtpInv, NEW line \in AnyLine, NEW code \in Nat, mailFrom(line, code)
    PROVE  SmtpInv' /\ client'.from = line[2] /\ client'.rcpts = <<>> /\ client'.user = client.user
<1>1. /\ st = "WAITMAILFROM" /\ st' = "WAITRCPT" /\ secrets = 0 /\ secrets' = 0 /\ mailbody' = mailbody
      /\ Heard(line, code) /\ code = 250 /\ line[1] = "mail"
  BY DEF mailFrom, Command, Listening
<1>2. /\ client' \in Client /\ client'.mode = "command" /\ client'.user = client.user
      /\ client'.from = line[2] /\ client'.rcpts = <<>>
  BY <1>1, HeardIs DEF SmtpInv
<1>3. DOMAIN env' = DOMAIN env \union {"from"} /\ env'["from"] = Normal[line[2]]
  BY DEF mailFrom, WithMember
<1>4. EnvInv'
  <2> USE <1>1, <1>2, <1>3 DEF SmtpInv, EnvInv, Has, HasFrom, HasRcpt
  <2>1. (Has(env, "user") <=> client.user)'
    OBVIOUS
  <2> QED
    BY <2>1 DEF EnvelopeMembers
<1> QED
  BY <1>1, <1>2, <1>4 DEF SmtpInv, InStep, Commands

LEMMA RcptToInv ==
    ASSUME SmtpInv, NEW line \in AnyLine, NEW code \in Nat, rcptTo(line, code)
    PROVE  /\ SmtpInv' /\ client'.from = client.from /\ client'.user = client.user
           /\ IF code = 250 THEN client'.rcpts = Append(client.rcpts, line[2]) /\ st' = "WAITRCPTORDATA"
              ELSE client'.rcpts = client.rcpts /\ st' = st
<1>1. /\ st \in {"WAITRCPT", "WAITRCPTORDATA"} /\ secrets = 0 /\ secrets' = 0 /\ mailbody' = mailbody
      /\ Heard(line, code) /\ code \in {250, 550} /\ line[1] = "rcpt"
  BY DEF rcptTo, Command, Listening
<1>2. /\ client' \in Client /\ client'.mode = "command" /\ client'.user = client.user /\ client'.from = client.from
      /\ client'.rcpts = IF code = 250 THEN Append(client.rcpts, line[2]) ELSE client.rcpts
  <2>1. client \in Client
    BY DEF SmtpInv
  <2>2. code # 235 /\ code # 334 /\ code # 354 /\ line[1] # "mail"
    BY <1>1
  <2> QED
    <3>1. /\ client' \in Client /\ client'.mode = "command" /\ client'.user = client.user /\ client'.from = client.from
      BY <1>1, <2>1, <2>2, HeardIs
    <3>2. code = 250 => client'.rcpts = Append(client.rcpts, line[2])
      BY <1>1, <2>1, HeardIs
    <3>3. code # 250 => client'.rcpts = client.rcpts
      BY <1>1, <2>1, HeardIs
    <3> QED
      BY <3>1, <3>2, <3>3
<1>3. CASE code = 250
  <2> DEFINE rcpts == IF Has(env, "rcpt") THEN env["rcpt"] ELSE <<>>
  <2>1. st' = "WAITRCPTORDATA" /\ env' = WithMember(env, "rcpt", Append(rcpts, Normal[line[2]]))
    BY <1>3 DEF rcptTo
  <2>2. rcpts = AllNormal(client.rcpts)
    <3>1. CASE st = "WAITRCPT"
      <4>1. client.rcpts = <<>> /\ rcpts = <<>>
        BY <3>1 DEF SmtpInv, EnvInv, HasRcpt
      <4> QED
        BY <4>1 DEF AllNormal
    <3>2. CASE st # "WAITRCPT"
      BY <1>1, <3>2 DEF SmtpInv, EnvInv, HasRcpt
    <3> QED
      BY <3>1, <3>2
  <2>3. client.rcpts \in Seq(Written) /\ line[2] \in Written
    BY <1>1, LineIs DEF SmtpInv, Client
  <2>4. AllNormal(client'.rcpts) = Append(rcpts, Normal[line[2]])
    BY <1>2, <1>3, <2>2, <2>3, NormalAppend
  <2>5. client'.rcpts # <<>>
    BY <1>2, <1>3, <2>3
  <2>6. DOMAIN env' = DOMAIN env \union {"rcpt"} /\ \A m \in DOMAIN env : m # "rcpt" => env'[m] = env[m]
    BY <2>1 DEF WithMember
  <2>7. env'["rcpt"] = AllNormal(client'.rcpts)
    BY <2>1, <2>4 DEF WithMember
  <2> HIDE DEF rcpts
  <2>8. EnvInv'
    <3> USE <1>1, <1>2, <2>1, <2>5, <2>6, <2>7 DEF SmtpInv, EnvInv, Has, HasFrom, HasRcpt
    <3>1. (Has(env, "user") <=> client.user)'
      OBVIOUS
    <3>2. (st \in HasFrom => Has(env, "from") /\ env["from"] = Normal[client.from])'
      OBVIOUS
    <3> QED
      BY <3>1, <3>2 DEF EnvelopeMembers
  <2> QED
    BY <1>1, <1>2, <1>3, <2>1, <2>8 DEF SmtpInv, InStep, Commands
<1>4. CASE code = 550
  <2>1. UNCHANGED <<st, env, mailbody, secrets>> /\ st \in Commands
    BY <1>1, <1>4 DEF rcptTo, Commands
  <2>2. SmtpInv'
    BY <1>1, <1>4, <2>1, SameInv
  <2> QED
    BY <1>2, <1>4, <2>1, <2>2
<1> QED
  BY <1>1, <1>3, <1>4

LEMMA DataInv ==
    ASSUME SmtpInv, NEW line \in AnyLine, NEW code \in Nat, data(line, code)
    PROVE  SmtpInv' /\ client'.from = client.from /\ client'.user = client.user /\ client'.rcpts = client.rcpts
<1>1. /\ st = "WAITRCPTORDATA" /\ st' = "DATA" /\ secrets = 0 /\ secrets' = 0 /\ mailbody' = mailbody /\ env' = env
      /\ Heard(line, code) /\ code = 354
  BY DEF data, Command, Listening
<1>2. /\ client' \in Client /\ client'.mode = "data" /\ client'.user = client.user /\ client'.from = client.from
      /\ client'.rcpts = client.rcpts /\ client'.text = <<>>
  BY <1>1, HeardIs DEF SmtpInv
<1>3. EnvInv'
  <2> USE <1>1, <1>2 DEF SmtpInv, EnvInv, Has, HasFrom, HasRcpt
  <2>1. (Has(env, "user") <=> client.user)'
    OBVIOUS
  <2> QED
    BY <2>1
<1> QED
  BY <1>1, <1>2, <1>3 DEF SmtpInv, InStep, Commands

LEMMA UnknownInv == ASSUME SmtpInv, NEW line \in AnyLine, NEW code \in Nat, unknown(line, code) PROVE SmtpInv'
<1>1. code = 500 /\ Heard(line, code) /\ UNCHANGED <<st, env, mailbody, secrets>> /\ st \in Commands /\ secrets = 0
  BY DEF unknown, Listening
<1> QED
  BY <1>1, SameInv

LEMMA BodyLineInv == ASSUME SmtpInv, NEW line \in AnyLine, NEW code \in Nat, bodyLine(line, code) PROVE SmtpInv'
<1>1. st = "DATA" /\ mailbody' = Append(mailbody, line) /\ UNCHANGED <<st, secrets, env>>
      /\ client' = [client EXCEPT !.text = Append(@, line)]
  BY DEF bodyLine
<1>2. client \in Client /\ mailbody = client.text
  BY <1>1 DEF SmtpInv
<1>3. /\ client' \in Client /\ client'.mode = client.mode /\ client'.from = client.from
      /\ client'.rcpts = client.rcpts /\ client'.text = Append(client.text, line) /\ client'.user = client.user
  <2>1. Append(client.text, line) \in Seq(AnyLine)
    BY <1>2, AppendProperties DEF Client
  <2> QED
    BY <1>1, <1>2, <2>1 DEF Client
<1>4. EnvInv'
  <2> USE <1>1, <1>3 DEF SmtpInv, EnvInv, Has
  <2>1. (Has(env, "user") <=> client.user)'
    OBVIOUS
  <2> QED
    BY <2>1
<1> QED
  BY <1>1, <1>2, <1>3, <1>4 DEF SmtpInv, InStep

LEMMA DotInv == ASSUME SmtpInv, NEW line \in AnyLine, NEW code \in Nat, dot(line, code) PROVE SmtpInv'
<1>1. st = "DATA" /\ st' = "DELIVER" /\ UNCHANGED <<secrets, env, mailbody, client>>
  BY DEF dot
<1>2. EnvInv'
  BY <1>1 DEF SmtpInv, EnvInv, HasFrom, HasRcpt
<1> QED
  BY <1>1, <1>2 DEF SmtpInv, InStep, Commands

LEMMA DeliveredInv == ASSUME SmtpInv, NEW code, delivered(code) PROVE SmtpInv'
<1>1. /\ st = "DELIVER" /\ st' = "WAITMAILFROM" /\ mailbody' = <<>> /\ secrets' = secrets
      /\ code \in {250, 550} /\ Heard(Word("."), code) /\ env' = WithMember(Forget, "transaction-id", TRUE)
  BY DEF delivered, NextMail, mainloop
<1>2. Word(".") \in AnyLine /\ Word(".")[1] = "."
  BY DEF AnyLine, Lines, Word
<1>3. client' \in Client /\ client'.mode = "command" /\ client'.user = client.user
  BY <1>1, <1>2, HeardIs DEF SmtpInv
<1>4. DOMAIN env' = (DOMAIN env \ {"rcpt", "from", "transaction-id"}) \union {"transaction-id"}
  BY <1>1 DEF WithMember, Forget, Restrict
<1>5. EnvInv'
  <2>1. DOMAIN env \subseteq EnvelopeMembers \union {"user"} /\ "ip" \in DOMAIN env /\ "helo" \in DOMAIN env
        /\ ("user" \in DOMAIN env <=> client.user)
    BY <1>1 DEF SmtpInv, EnvInv, Has
  <2>2. DOMAIN env' \subseteq EnvelopeMembers \union {"user"}
    BY <1>4, <2>1 DEF EnvelopeMembers
  <2>3. {"ip", "transaction-id"} \subseteq DOMAIN env' /\ Has(env', "helo")
    BY <1>4, <2>1 DEF Has
  <2>4. (Has(env, "user") <=> client.user)' /\ ~ Has(env', "rcpt")
    BY <1>3, <1>4, <2>1 DEF Has
  <2> QED
    BY <1>1, <2>2, <2>3, <2>4 DEF EnvInv, HasFrom, HasRcpt
<1>6. secrets = 0
  BY <1>1 DEF SmtpInv, Commands
<1>7. <<>> \in Seq(AnyLine)
  OBVIOUS
<1> QED
  BY <1>1, <1>3, <1>5, <1>6, <1>7 DEF SmtpInv, InStep, Commands

LEMMA TakeInv == ASSUME SmtpInv, NEW line \in AnyLine, NEW code \in Nat, Take(line, code) PROVE SmtpInv'
<1>1. CASE empty(line, code)
  <2>1. UNCHANGED smtpVars
    BY <1>1 DEF empty
  <2> QED
    BY <2>1 DEF smtpVars, SmtpInv, EnvInv, InStep
<1>2. CASE line[1] = "quit" /\ quit(code)
  BY <1>2, HungupInv DEF quit
<1> QED
  BY <1>1, <1>2, AuthInv, HeloInv, MailFromInv, RcptToInv, DataInv, UnknownInv, BodyLineInv, DotInv DEF Take

LEMMA SmtpStepInv == SmtpInv /\ [SmtpNext]_smtpVars => SmtpInv'
<1> SUFFICES ASSUME SmtpInv, [SmtpNext]_smtpVars PROVE SmtpInv'
  OBVIOUS
<1>1. CASE connect
  BY <1>1, ConnectInv
<1>2. CASE lost
  BY <1>2, HungupInv DEF lost
<1>3. ASSUME NEW code \in {250, 550}, delivered(code) PROVE SmtpInv'
  BY <1>3, DeliveredInv
<1>4. ASSUME NEW line \in Lines, NEW code \in Replies(line), Take(line, code) PROVE SmtpInv'
  <2>1. code \in Nat /\ line \in AnyLine
    BY DEF Replies, AnyLine
  <2> QED
    BY <1>4, <2>1, TakeInv
<1>5. CASE UNCHANGED smtpVars
  BY <1>5 DEF smtpVars, SmtpInv, EnvInv, InStep
<1> QED
  BY <1>1, <1>2, <1>3, <1>4, <1>5 DEF SmtpNext

LEMMA SmtpInvMeans == SmtpInv => SmtpTypeOK /\ MailAsAgreed /\ InStep
<1> SUFFICES ASSUME SmtpInv PROVE SmtpTypeOK /\ MailAsAgreed /\ InStep
  OBVIOUS
<1>1. SmtpTypeOK
  BY DEF SmtpInv, EnvInv, SmtpTypeOK, Client, AnyLine
<1>2. ASSUME st = "DELIVER" PROVE MailAsAgreed
  <2>1. Has(env, "user") <=> client.user
    BY DEF SmtpInv, EnvInv
  <2>2. env["rcpt"] = AllNormal(client.rcpts) /\ env["rcpt"] # <<>>
    <3>1. env["rcpt"] = AllNormal(client.rcpts) /\ client.rcpts # <<>> /\ client.rcpts \in Seq(Written)
      BY <1>2 DEF SmtpInv, EnvInv, HasRcpt, Client
    <3>2. DOMAIN AllNormal(client.rcpts) = 1 .. Len(client.rcpts) /\ Len(client.rcpts) > 0
      BY <3>1 DEF AllNormal
    <3> QED
      BY <3>1, <3>2
  <2>3. EnvelopeMembers \subseteq DOMAIN env /\ env["from"] = Normal[client.from] /\ mailbody = client.text
    BY <1>2 DEF SmtpInv, EnvInv, HasRcpt, HasFrom, EnvelopeMembers, Has
  <2> QED
    BY <2>1, <2>2, <2>3 DEF MailAsAgreed, AllNormal
<1> QED
  BY <1>1, <1>2 DEF SmtpInv, MailAsAgreed

LEMMA SmtpInitInv == SmtpInit => SmtpInv
<1> SUFFICES ASSUME SmtpInit PROVE SmtpInv
  OBVIOUS
<1>1. client \in Client /\ <<>> \in Seq(AnyLine)
  <2>1. <<>> \in Seq(Written) /\ <<>> \in Seq(AnyLine)
    OBVIOUS
  <2> QED
    BY <2>1 DEF SmtpInit, NewClient, Client
<1>2. DOMAIN env = {}
  BY DEF SmtpInit
<1>3. st = "ACCEPT" /\ secrets = 0 /\ mailbody = <<>> /\ client.mode = "command" /\ ~ client.user /\ client = NewClient
  BY DEF SmtpInit, NewClient
<1>4. EnvInv
  BY <1>2, <1>3 DEF EnvInv, Has, HasFrom, HasRcpt
<1> QED
  BY <1>1, <1>3, <1>4 DEF SmtpInv, InStep

\* A mail is delivered with the sender, the recipients and the lines that the client was told are
\* taken, and both sides agree on what each line is, whatever a client sends (smtpworker::run).
THEOREM SessionsAgree == SmtpSpec => [](SmtpTypeOK /\ MailAsAgreed /\ InStep)
<1>1. SmtpSpec => []SmtpInv
  BY SmtpInitInv, SmtpStepInv, PTL DEF SmtpSpec
<1> QED
  BY <1>1, SmtpInvMeans, PTL

(***************************************************************************)
(* The client and the session                                              *)
(***************************************************************************)
Steps == {"idle", "banner", "helo", "auth", "mail", "rcpt", "data", "dot", "quit"}
Quit == Word("quit")
Said == Append(Text(message), Dot)

MailTypes ==
    /\ step \in Steps /\ message \in Messages /\ nrcpt \in 0 .. Len(message.rcpts)
    /\ toServer \in Seq(AnyLine) /\ toClient \in Seq(Nat) /\ conn \in {"open", "closed", "broken"}
    /\ result \in {"nothing", "sent", "failed"} /\ secrets = 0

Begins(s, t) == Len(s) <= Len(t) /\ \A i \in 1 .. Len(s) : s[i] = t[i]
NoDots(s) == \A i \in 1 .. Len(s) : s[i] # Dot

\* The recipients so far are the first ones of the message.
SoFar ==
    /\ client.from = message.from /\ client.user = message.user
    /\ Begins(client.rcpts, message.rcpts)

\* A command of dosmtp finds what it needs; the line for a recipient is the next one.
CanTake(line) ==
    \/ line \in {Quit, Word("helo")}
    \/ line = Word("auth plain text") /\ message.user
    \/ line = <<"mail", message.from>> /\ client.user = message.user
    \/ /\ Len(client.rcpts) < Len(message.rcpts)
       /\ line = <<"rcpt", message.rcpts[Len(client.rcpts) + 1]>>
    \/ line = Word("data") /\ Len(client.rcpts) = Len(message.rcpts)

\* s is what is said from the line behind k to n, and perhaps the dot of a torn line.
Torn(n) == conn = "broken" /\ n < Len(Said) /\ Starts(Said[n + 1])
Remains(s, k, n) ==
    /\ \A i \in 1 .. n - k : s[i] = Said[k + i]
    /\ \/ Len(s) = n - k
       \/ Len(s) = n - k + 1 /\ s[n - k + 1] = Dot /\ Torn(n)
Arriving(n) ==
    /\ Len(mailbody) <= n /\ (n = Len(Said) \/ conn = "broken")
    /\ Remains(toServer, Len(mailbody), n)

\* How a text ends that is delivered.
EndsWell(text) ==
    \/ text = UpToDot(Text(message))
    \/ conn = "broken" /\ Begins(text, Text(message)) /\ Starts(Text(message)[Len(text) + 1])

\* Before the mail has arrived: what the worker has and what is on its way to it.
AtData == step = "data" /\ conn = "open" /\ mailbody = <<>> /\ toServer = <<>> /\ toClient = <<354>>
InText == \E n \in 0 .. Len(Said) : Arriving(n)
ServerInv ==
    /\ client.user => message.user
    /\ st \in HasFrom => SoFar
    /\ st \in Commands => toServer = <<>> \/ \E line \in AnyLine : toServer = <<line>> /\ CanTake(line)
    /\ st \in {"DATA", "DELIVER"} => Len(client.rcpts) = Len(message.rcpts) /\ conn # "closed"
    /\ st = "DATA" => Begins(mailbody, Text(message)) /\ NoDots(mailbody) /\ (AtData \/ InText)
    /\ st = "DELIVER" => EndsWell(mailbody) /\ toServer \in Seq(TextLines)
    /\ st = "DELIVER" \/ (st = "DATA" /\ toServer # <<>>) => step \in {"dot", "idle"}

\* ... and what dosmtp waits for: its line is still to be taken, or the reply says what came of it.
Replied(code) ==
    /\ step = "auth" /\ code = 235 => client.user
    /\ step = "mail" /\ code = 250 => st = "WAITRCPT"
    /\ step = "rcpt" /\ code = 250 => st = "WAITRCPTORDATA" /\ Len(client.rcpts) = nrcpt
    /\ step = "data" /\ code = 354 => st = "DATA"
Verb == IF step = "auth" THEN "auth plain text" ELSE step
Asking == /\ step \in {"helo", "auth", "mail", "rcpt", "data"} /\ st \in Commands
          /\ Len(toServer) = 1 /\ toServer[1][1] = Verb /\ toClient = <<>>
          /\ step = "rcpt" => nrcpt = Len(client.rcpts) + 1
Answered == /\ step \in {"banner", "helo", "auth", "mail", "rcpt", "data"} /\ st \in Commands \union {"DATA"}
            /\ toServer = <<>> /\ Len(toClient) = 1 /\ Replied(toClient[1])
ClientInv ==
    /\ step # "quit" /\ result # "sent" /\ Len(toClient) <= 1
    /\ step = "dot" => toClient = <<>>
    /\ step \in {"banner", "helo", "auth", "mail"} => nrcpt = 0
    /\ conn = "open" =>
         \/ step = "banner" /\ st = "ACCEPT" /\ toServer = <<>> /\ toClient = <<>>
         \/ Asking \/ Answered
         \/ step = "dot" /\ st \in {"DATA", "DELIVER"}
    /\ conn = "closed" => st \notin {"DATA", "DELIVER"} /\ toServer \in {<<>>, <<Quit>>}

IsText(s) == s \in Seq(AnyLine)

\* Once it has, nothing that is left makes another one of it.
ArrivedInv ==
    LET mail == arrived[1] IN
    /\ arrived = <<mail>> /\ mail.code \in {250, 550} /\ Agreed(mail) /\ EndsWell(mail.text) /\ IsText(mail.text)
    /\ st \in {"ACCEPT", "WAITMAILFROM"} /\ toServer \in Seq(TextLines \union {Quit})
    /\ step \in {"idle", "dot", "quit"}
    /\ step = "dot" => IF toClient = <<>> THEN conn = "broken" ELSE toClient[1] = mail.code
    /\ step = "quit" \/ result = "sent" => mail.code = 250
    /\ result = "failed" /\ conn # "broken" => mail.code = 550

Between ==
    IF step = "idle" THEN conn # "open" /\ toClient = <<>> ELSE conn # "closed" /\ result = "nothing"

MailInv == SmtpInv /\ MailTypes /\ Between /\ IF arrived = <<>> THEN ServerInv /\ ClientInv ELSE ArrivedInv

-----------------------------------------------------------------------------
(* The text of a mail.                                                     *)
LEMMA EscapedIs ==
    ASSUME NEW body \in Seq(TextLines)
    PROVE  /\ Escaped(body) \in Seq(TextLines) /\ Len(Escaped(body)) = Len(body)
           /\ \A i \in 1 .. Len(body) :
                Escaped(body)[i] = IF /\ i \in 2 .. Len(body) - 1 /\ body[i] = Dot
                                      /\ body[i - 1] # Dot \/ Escaped(body)[i - 1] = Dot
                                   THEN Word("..") ELSE body[i]
<1> DEFINE N == Len(body)
           Hit(i, l) == i \in 2 .. N - 1 /\ body[i] = Dot /\ (body[i - 1] # Dot \/ l = Dot)
           Line(i, l) == IF Hit(i, l) THEN Word("..") ELSE body[i]
           Is(e) == e = [i \in DOMAIN body |-> Line(i, e[i - 1])]
           steps == [n \in Nat |-> [l \in TextLines |-> IF n \in 1 .. N THEN Line(n, l) ELSE l]]
<1>1. N \in Nat /\ DOMAIN body = 1 .. N /\ (\A i \in 1 .. N : body[i] \in TextLines) /\ Dot \in TextLines /\ Word("..") \in TextLines
  BY DEF TextLines, Dot
<1>2. steps \in [Nat -> [TextLines -> TextLines]]
  BY <1>1
<1>3. PICK f : Computes(f, TextLines, Dot, steps, N)
  <2> HIDE DEF steps, N
  <2> QED
    BY <1>1, <1>2, StepsExist, Zenon
<1>4. \A i \in 1 .. N : f[i] = Line(i, f[i - 1]) /\ f[i] \in TextLines /\ f[i - 1] \in TextLines
  <2> TAKE i \in 1 .. N
  <2>1. i \in 0 .. N /\ i - 1 \in 0 .. N /\ i \in Nat
    BY <1>1
  <2>2. f[i] = steps[i][f[i - 1]] /\ f[i] \in TextLines /\ f[i - 1] \in TextLines
    BY <1>3, <2>1 DEF Computes
  <2> QED
    BY <2>1, <2>2
<1> DEFINE e == [i \in 1 .. N |-> f[i]]
<1>5. \A i \in 1 .. N : e[i] = Line(i, e[i - 1])
  <2> TAKE i \in 1 .. N
  <2>1. e[i] = f[i] /\ f[i] = Line(i, f[i - 1])
    BY <1>4
  <2>2. i \in 2 .. N - 1 => e[i - 1] = f[i - 1]
    BY <1>1
  <2> QED
    BY <2>1, <2>2
<1>6. Is(e)
  <2>1. e = [i \in 1 .. N |-> e[i]]
    OBVIOUS
  <2> HIDE DEF e, Line
  <2> QED
    BY <1>1, <1>5, <2>1
<1>7. Is(Escaped(body))
  <2>1. Escaped(body) = CHOOSE x : Is(x)
    BY DEF Escaped
  <2> HIDE DEF Is, e
  <2> QED
    BY <1>6, <2>1
<1> DEFINE g == Escaped(body)
<1>8. DOMAIN g = 1 .. N /\ \A i \in 1 .. N : g[i] = Line(i, g[i - 1])
  <2> HIDE DEF Line, g
  <2>1. g = [i \in DOMAIN body |-> Line(i, g[i - 1])]
    BY <1>7 DEF g
  <2> QED
    BY <1>1, <2>1
<1>9. \A i \in 1 .. N : g[i] \in TextLines
  <2> HIDE DEF g
  <2> QED
    BY <1>1, <1>8
<1>10. g \in Seq(TextLines) /\ Len(g) = N
  <2>1. g = [i \in 1 .. N |-> g[i]]
    <3> HIDE DEF Line
    <3> QED
      BY <1>1, <1>7
  <2> HIDE DEF g
  <2> QED
    BY <1>1, <1>8, <1>9, <2>1
<1> QED
  BY <1>8, <1>10

LEMMA TextIs ==
    ASSUME NEW m \in Messages
    PROVE  Text(m) \in Seq(TextLines) /\ Len(Text(m)) \in Nat
<1>1. m.head \in Seq(TextLines) /\ m.body \in Seq(TextLines)
  <2>1. m.head \in Seq(HeadLines) /\ m.body \in Seq(TextLines) /\ HeadLines \subseteq TextLines
    BY MessagesAssumption DEF TextLines
  <2> QED
    BY <2>1
<1>2. Text(m) \in Seq(TextLines)
  BY <1>1, EscapedIs, ConcatProperties DEF Text
<1> QED
  BY <1>2

\* What is said of a mail is its text and a dot.
LEMMA SaidIs ==
    ASSUME message \in Messages
    PROVE  /\ Said \in Seq(TextLines) /\ Len(Said) = Len(Text(message)) + 1 /\ Len(Text(message)) \in Nat
           /\ \A i \in 1 .. Len(Text(message)) : Said[i] = Text(message)[i]
           /\ Said[Len(Text(message)) + 1] = Dot
           /\ TextLines \subseteq AnyLine
<1>1. Dot \in TextLines /\ TextLines \subseteq AnyLine
  BY DEF TextLines, HeadLines, Dot, AnyLine, Lines
<1> QED
  BY <1>1, TextIs, AppendProperties DEF Said

\* A text whose dot comes behind its first lines is cut there.
LEMMA CutThere ==
    ASSUME NEW s \in Seq(AnyLine), NEW t \in Seq(AnyLine), Begins(s, t), NoDots(s),
           Len(s) < Len(t) => t[Len(s) + 1] = Dot
    PROVE  s = UpToDot(t)
<1> DEFINE dots == {i \in DOMAIN t : t[i] = Dot}
<1>1. Len(s) \in Nat /\ Len(t) \in Nat /\ DOMAIN t = 1 .. Len(t) /\ Len(s) <= Len(t)
      /\ \A i \in 1 .. Len(s) : s[i] = t[i] /\ t[i] # Dot
  BY DEF Begins, NoDots
<1>2. CASE Len(s) = Len(t)
  <2>1. s = t
    BY <1>1, <1>2, SeqEqual
  <2>2. dots = {}
    BY <1>1, <1>2
  <2> QED
    BY <2>1, <2>2 DEF UpToDot
<1>3. CASE Len(s) < Len(t)
  <2> DEFINE first == CHOOSE i \in dots : \A k \in dots : i <= k
             Least(i) == i \in dots /\ \A k \in dots : i <= k
  <2>1. Len(s) + 1 \in dots /\ dots \subseteq 1 .. Len(t) /\ \A k \in dots : Len(s) + 1 <= k
    BY <1>1, <1>3
  <2>2. first = Len(s) + 1
    <3>1. Least(Len(s) + 1)
      BY <2>1
    <3>2. \A i : Least(i) => i = Len(s) + 1
      <4> SUFFICES ASSUME NEW i, Least(i) PROVE i = Len(s) + 1
        OBVIOUS
      <4>1. i \in 1 .. Len(t) /\ i <= Len(s) + 1 /\ Len(s) + 1 <= i
        BY <2>1
      <4> QED
        BY <1>1, <4>1
    <3>3. first = CHOOSE i : Least(i)
      OBVIOUS
    <3> HIDE DEF Least, first
    <3> QED
      BY <3>1, <3>2, <3>3
  <2>3. UpToDot(t) = SubSeq(t, 1, first - 1) /\ first - 1 = Len(s)
    BY <1>1, <2>1, <2>2 DEF UpToDot
  <2>4. s = SubSeq(t, 1, Len(s))
    <3>1. SubSeq(t, 1, Len(s)) \in Seq(AnyLine) /\ Len(SubSeq(t, 1, Len(s))) = Len(s)
          /\ \A i \in 1 .. Len(s) : SubSeq(t, 1, Len(s))[i] = t[i]
      BY <1>1
    <3> QED
      BY <1>1, <3>1, SeqEqual
  <2> QED
    BY <2>3, <2>4
<1> QED
  BY <1>1, <1>2, <1>3

LEMMA BeginsPrefix == 
    ASSUME NEW S, NEW s \in Seq(S), NEW t \in Seq(S), Begins(s, t)
    PROVE  IsPrefix(s, t)
<1>1. SubSeq(s, 1, Len(s)) \in Seq(S) /\ SubSeq(t, 1, Len(s)) \in Seq(S) /\ Len(s) \in Nat /\ Len(t) \in Nat
      /\ Len(SubSeq(s, 1, Len(s))) = Len(s) /\ Len(SubSeq(t, 1, Len(s))) = Len(s)
      /\ \A i \in 1 .. Len(s) : SubSeq(s, 1, Len(s))[i] = s[i] /\ SubSeq(t, 1, Len(s))[i] = t[i]
  BY DEF Begins
<1>2. SubSeq(s, 1, Len(s)) = SubSeq(t, 1, Len(s))
  BY <1>1, SeqEqual DEF Begins
<1> QED
  BY <1>2 DEF Begins, IsPrefix

\* A body whose dots are all escaped is delivered as it was, but for them.
LEMMA CoveredText ==
    ASSUME NEW m \in Messages, Covered(m.body)
    PROVE  UpToDot(Text(m)) = m.head \o [k \in DOMAIN m.body |-> IF m.body[k] = Dot THEN Word("..") ELSE m.body[k]]
<1> DEFINE b == m.body
           doubled == [k \in DOMAIN b |-> IF b[k] = Dot THEN Word("..") ELSE b[k]]
<1>1. b \in Seq(TextLines) /\ m.head \in Seq(HeadLines) /\ Dot # Word("..") /\ Word("..") \in TextLines /\ Dot \notin HeadLines
      /\ HeadLines \subseteq TextLines
  BY MessagesAssumption DEF Dot, Word, TextLines, HeadLines
<1>2. Len(b) \in Nat /\ DOMAIN b = 1 .. Len(b) /\ \A i \in 1 .. Len(b) : b[i] \in TextLines
  BY <1>1
<1>3. \A i \in 1 .. Len(b) : b[i] = Dot => i \in 2 .. Len(b) - 1 /\ b[i - 1] # Dot
  BY <1>2 DEF Covered
<1> HIDE DEF b
<1>4. \A i \in 1 .. Len(b) : Escaped(b)[i] = doubled[i] /\ Escaped(b)[i] # Dot
  BY <1>1, <1>2, <1>3, EscapedIs
<1>5. Escaped(b) = doubled
  <2>1. doubled \in Seq(TextLines) /\ Len(doubled) = Len(b)
    BY <1>1, <1>2
  <2> HIDE DEF doubled
  <2> QED
    BY <1>1, <1>2, <1>4, <2>1, EscapedIs, SeqEqual
<1>6. Text(m) = m.head \o doubled
  BY <1>5 DEF Text, b
<1>7. NoDots(Text(m))
  <2>1. m.head \in Seq(TextLines) /\ Escaped(b) \in Seq(TextLines) /\ Len(Escaped(b)) = Len(b) /\ Len(m.head) \in Nat
    BY <1>1, EscapedIs
  <2>2. \A i \in 1 .. Len(m.head) : m.head[i] \in HeadLines
    BY <1>1
  <2>3. Text(m) = m.head \o Escaped(b)
    BY DEF Text, b
  <2>4. SUFFICES ASSUME NEW i \in 1 .. Len(Text(m)) PROVE Text(m)[i] # Dot
    BY DEF NoDots
  <2>5. Len(Text(m)) = Len(m.head) + Len(b)
        /\ Text(m)[i] = IF i <= Len(m.head) THEN m.head[i] ELSE Escaped(b)[i - Len(m.head)]
    <3>1. Len(Text(m)) = Len(m.head) + Len(Escaped(b)) /\ i \in 1 .. Len(m.head) + Len(Escaped(b))
      BY <2>1, <2>3, ConcatProperties
    <3>2. (m.head \o Escaped(b))[i] = IF i <= Len(m.head) THEN m.head[i] ELSE Escaped(b)[i - Len(m.head)]
      BY <2>1, <3>1, ConcatProperties
    <3> QED
      BY <2>1, <2>3, <3>1, <3>2
  <2>6. CASE i <= Len(m.head)
    <3>1. i \in 1 .. Len(m.head)
      BY <2>1, <2>6
    <3> QED
      BY <1>1, <2>2, <2>5, <2>6, <3>1
  <2>7. CASE ~ (i <= Len(m.head))
    <3>1. i - Len(m.head) \in 1 .. Len(b)
      BY <1>2, <2>1, <2>5, <2>7
    <3> QED
      BY <1>4, <2>5, <2>7, <3>1
  <2> QED
    BY <2>6, <2>7
<1>8. Text(m) = UpToDot(Text(m))
  <2>1. Text(m) \in Seq(AnyLine) /\ Len(Text(m)) \in Nat
    <3>1. TextLines \subseteq AnyLine
      BY DEF TextLines, HeadLines, AnyLine, Lines
    <3> QED
      BY <3>1, TextIs
  <2>2. Begins(Text(m), Text(m)) /\ ~ (Len(Text(m)) < Len(Text(m)))
    BY <2>1 DEF Begins
  <2> QED
    BY <1>7, <2>1, <2>2, CutThere
<1> QED
  BY <1>6, <1>8 DEF b

-----------------------------------------------------------------------------
(* The client: dosmtp dials, hears, is thrown out of gets.                 *)
LEMMA SessionStays == ASSUME SmtpInv, UNCHANGED smtpVars PROVE SmtpInv'
BY DEF smtpVars, SmtpInv, EnvInv, InStep

LEMMA InTextStays == ASSUME InText, UNCHANGED <<mailbody, toServer, message, conn>> PROVE InText'
BY DEF InText, Arriving, Remains, Torn, Said

LEMMA EndsWellStays ==
    ASSUME NEW text, EndsWell(text), message' = message, conn = "broken" => conn' = "broken"
    PROVE  EndsWell(text)'
BY DEF EndsWell

LEMMA CanTakeStays ==
    ASSUME NEW line, CanTake(line), UNCHANGED <<client, message>>
    PROVE  CanTake(line)'
BY DEF CanTake

\* Without a connection dosmtp changes nothing for the worker.
LEMMA ServerStays ==
    ASSUME MailInv, ServerInv, UNCHANGED <<smtpVars, message, toServer, conn>>, conn # "open",
           step \in {"dot", "idle"} => step' \in {"dot", "idle"}
    PROVE  ServerInv'
<1> USE DEF smtpVars
<1>1. (st \in Commands => toServer = <<>> \/ \E line \in AnyLine : toServer = <<line>> /\ CanTake(line))'
  <2> SUFFICES ASSUME st \in Commands, toServer # <<>>
               PROVE (\E line \in AnyLine : toServer = <<line>> /\ CanTake(line))'
    OBVIOUS
  <2>1. PICK line \in AnyLine : toServer = <<line>> /\ CanTake(line)
    BY DEF ServerInv
  <2> QED
    BY <2>1, CanTakeStays
<1>2. (st = "DATA" => Begins(mailbody, Text(message)) /\ NoDots(mailbody) /\ (AtData \/ InText))'
  BY InTextStays DEF ServerInv, AtData
<1>3. (st = "DELIVER" => EndsWell(mailbody) /\ toServer \in Seq(TextLines))'
  BY EndsWellStays DEF ServerInv
<1>4. (st \in HasFrom => SoFar)'
  BY DEF ServerInv, SoFar
<1> QED
  BY <1>1, <1>2, <1>3, <1>4 DEF ServerInv

LEMMA DialInv == ASSUME MailInv, dial PROVE MailInv'
<1> USE DEF MailInv
<1>1. /\ step = "idle" /\ st = "ACCEPT" /\ UNCHANGED smtpVars /\ message' \in Messages
      /\ arrived' = <<>> /\ nrcpt' = 0 /\ toServer' = <<>> /\ toClient' = <<>>
      /\ \/ conn' = "open" /\ step' = "banner" /\ result' = "nothing"
         \/ conn' = "closed" /\ step' = "idle" /\ result' = "failed"
  BY DEF dial
<1>2. SmtpInv'
  BY <1>1, SessionStays
<1>3. st' = "ACCEPT" /\ secrets' = 0 /\ ~ client'.user
  <2>1. client' = NewClient /\ st' = "ACCEPT" /\ secrets' = 0
    BY <1>1 DEF smtpVars, SmtpInv, EnvInv, MailTypes
  <2>2. ~ NewClient.user
    BY DEF NewClient
  <2> QED
    BY <2>1, <2>2
<1>4. MailTypes'
  <2>1. message'.rcpts \in Seq(Written)
    BY <1>1, MessagesAssumption
  <2>2. 0 \in 0 .. Len(message'.rcpts) /\ <<>> \in Seq(AnyLine) /\ <<>> \in Seq(Nat)
    BY <2>1
  <2> QED
    BY <1>1, <1>3, <2>2 DEF MailTypes, Steps
<1>5. Between'
  BY <1>1 DEF Between
<1>6. ServerInv' /\ ClientInv'
  BY <1>1, <1>3 DEF ServerInv, ClientInv, Commands, HasFrom, HasRcpt
<1> QED
  BY <1>1, <1>2, <1>4, <1>5, <1>6

LEMMA ThrowsInv == ASSUME MailInv, throws PROVE MailInv'
<1> USE DEF MailInv
<1>1. /\ step # "idle" /\ toClient = <<>> /\ conn = "broken" /\ conn' = "broken" /\ toClient' = <<>> /\ step' = "idle"
      /\ result' = IF step = "quit" THEN "sent" ELSE "failed"
      /\ UNCHANGED <<smtpVars, message, nrcpt, toServer, arrived>>
  BY DEF throws, Ends
<1>2. SmtpInv'
  BY <1>1, SessionStays
<1>3. MailTypes' /\ Between'
  BY <1>1 DEF MailTypes, Between, Steps, smtpVars
<1>4. CASE arrived = <<>>
  <2>1. ServerInv'
    BY <1>1, <1>4, ServerStays
  <2>2. ClientInv'
    BY <1>1, <1>4 DEF ClientInv
  <2> QED
    BY <1>1, <1>2, <1>3, <1>4, <2>1, <2>2
<1>5. CASE arrived # <<>>
  <2>1. EndsWell(arrived[1].text)'
    BY <1>1, <1>5, EndsWellStays DEF ArrivedInv
  <2>2. ArrivedInv'
    BY <1>1, <1>5, <2>1 DEF ArrivedInv, Agreed, smtpVars
  <2> QED
    BY <1>1, <1>2, <1>3, <1>5, <2>2
<1> QED
  BY <1>4, <1>5

\* On a connection that is open there is either something to take or something to hear.
LEMMA OpenAnswered ==
    ASSUME MailInv, arrived = <<>>, conn = "open", toClient # <<>>
    PROVE  Answered /\ (st = "DATA" => AtData)
<1>1. Answered
  BY DEF MailInv, ClientInv, Asking
<1>2. ASSUME st = "DATA" PROVE ~ InText
  <2> SUFFICES ASSUME NEW n \in 0 .. Len(Said), Arriving(n) PROVE FALSE
    BY DEF InText
  <2>1. message \in Messages /\ mailbody \in Seq(AnyLine) /\ Len(mailbody) \in Nat
    BY DEF MailInv, MailTypes, SmtpInv
  <2>2. n = Len(Said) /\ toServer = <<>> /\ Begins(mailbody, Text(message))
    BY <1>1, <1>2 DEF Arriving, Answered, MailInv, ServerInv
  <2>3. Len(mailbody) < n /\ n \in Nat
    BY <2>1, <2>2, SaidIs DEF Begins
  <2>4. Len(toServer) = n - Len(mailbody) /\ Len(toServer) = 0
    BY <2>2 DEF Arriving, Remains, Torn
  <2> QED
    BY ONLY <2>1, <2>3, <2>4
<1>3. st = "DATA" => AtData \/ InText
  BY ONLY MailInv, arrived = <<>> DEF MailInv, ServerInv
<1> QED
  BY ONLY <1>1, <1>2, <1>3

LEMMA OneLeft ==
    ASSUME NEW S, NEW s \in Seq(S), Len(s) <= 1, s # <<>>
    PROVE  Len(s) = 1 /\ s[1] \in S /\ Head(s) = s[1] /\ s = <<Head(s)>> /\ Tail(s) = <<>>
<1>1. Len(s) \in Nat /\ Len(s) # 0
  BY EmptySeq
<1>2. Len(s) = 1
  <2>1. \A k \in Nat : k # 0 /\ k <= 1 => k = 1
    OBVIOUS
  <2> QED
    BY ONLY <1>1, <2>1, Len(s) <= 1
<1>3. s[1] \in S /\ Head(s) = s[1] /\ Len(<<s[1]>>) = 1 /\ <<s[1]>>[1] = s[1]
  BY <1>2
<1>4. <<s[1]>> \in Seq(S)
  BY <1>3
<1>5. s = <<s[1]>>
  BY <1>2, <1>3, <1>4, SeqEqual
<1>6. Tail(s) = <<>>
  BY <1>5
<1> QED
  BY <1>2, <1>3, <1>5, <1>6

LEMMA HearArrived == ASSUME MailInv, hear, arrived # <<>> PROVE MailInv'
<1> USE DEF MailInv
<1>1. /\ ArrivedInv /\ step \in {"dot", "quit"} /\ toClient # <<>> /\ conn # "closed"
      /\ UNCHANGED <<smtpVars, message, connections, arrived>> /\ arrived' # <<>>
  BY DEF hear, ArrivedInv, Between
<1>2. SmtpInv'
  BY <1>1, SessionStays
<1>3. toClient \in Seq(Nat) /\ Head(toClient) = toClient[1] /\ Tail(toClient) \in Seq(Nat)
  BY <1>1 DEF MailTypes
<1>4. CASE step = "quit" \/ (step = "dot" /\ Head(toClient) # 250)
  <2>1. /\ step' = "idle" /\ result' = (IF step = "quit" THEN "sent" ELSE "failed") /\ toClient' = <<>>
        /\ conn' = (IF conn = "open" THEN "closed" ELSE conn) /\ UNCHANGED <<toServer, nrcpt>>
    BY <1>4 DEF hear, Ends, Expected, GoodReply
  <2>2. conn = "broken" <=> conn' = "broken"
    BY <2>1 DEF MailTypes
  <2>3. MailTypes' /\ Between'
    BY <1>1, <2>1 DEF MailTypes, Between, Steps, smtpVars
  <2>4. EndsWell(arrived[1].text)'
    BY <1>1, <2>2, EndsWellStays DEF ArrivedInv
  <2>5. ArrivedInv'
    BY <1>1, <1>3, <1>4, <2>1, <2>2, <2>4 DEF ArrivedInv, Agreed, smtpVars
  <2> QED
    BY <1>1, <1>2, <2>3, <2>5
<1>5. CASE step = "dot" /\ Head(toClient) = 250
  <2>1. /\ step' = "quit" /\ toClient' = Tail(toClient) /\ UNCHANGED <<conn, result, nrcpt>>
        /\ toServer' = IF conn = "open" THEN toServer \o <<Quit>> ELSE toServer
    BY <1>5 DEF hear, Expected, GoodReply, Following, Sends, Quit
  <2>2. toServer' \in Seq(TextLines \union {Quit}) /\ TextLines \union {Quit} \subseteq AnyLine
    <3>1. toServer \in Seq(TextLines \union {Quit}) /\ <<Quit>> \in Seq(TextLines \union {Quit})
      BY <1>1 DEF ArrivedInv
    <3>2. TextLines \union {Quit} \subseteq AnyLine
      BY DEF TextLines, HeadLines, AnyLine, Lines, Quit
    <3> QED
      BY <2>1, <3>1, <3>2, ConcatProperties
  <2>3. MailTypes' /\ Between'
    <3>1. toServer' \in Seq(AnyLine)
      BY <2>2
    <3> QED
      BY <1>1, <1>3, <1>5, <2>1, <3>1 DEF MailTypes, Between, Steps, smtpVars
  <2>4. EndsWell(arrived[1].text)'
    BY <1>1, <2>1, EndsWellStays DEF ArrivedInv
  <2>5. arrived[1].code = 250 /\ result = "nothing"
    BY <1>1, <1>3, <1>5 DEF ArrivedInv, Between
  <2>6. toServer' \in Seq(TextLines \union {Quit})
    BY <2>2
  <2>7. Agreed(arrived[1])' /\ arrived' = <<arrived'[1]>> /\ st' \in {"ACCEPT", "WAITMAILFROM"}
    BY <1>1 DEF ArrivedInv, Agreed, smtpVars
  <2>8. ArrivedInv'
    BY <1>1, <2>1, <2>4, <2>5, <2>6, <2>7 DEF ArrivedInv
  <2> QED
    BY <1>1, <1>2, <2>3, <2>8
<1> QED
  BY <1>1, <1>4, <1>5

LEMMA HearFails ==
    ASSUME MailInv, hear, arrived = <<>>, ~ Expected(Head(toClient))
    PROVE  MailInv'
<1> USE DEF MailInv
<1>1. /\ ServerInv /\ ClientInv /\ step # "idle" /\ toClient # <<>> /\ step # "quit" /\ step # "dot"
      /\ UNCHANGED <<smtpVars, message, arrived, nrcpt>> /\ arrived' = <<>>
      /\ step' = "idle" /\ result' = "failed" /\ toClient' = <<>>
      /\ conn' = (IF conn = "open" THEN "closed" ELSE conn)
      /\ toServer' = IF step = "auth" /\ conn = "open" THEN Append(toServer, Quit) ELSE toServer
  BY DEF hear, Ends, ClientInv, Quit
<1>2. SmtpInv'
  BY <1>1, SessionStays
<1>3. Quit \in AnyLine
  BY DEF Quit, AnyLine, Lines
<1>4. MailTypes' /\ Between'
  <2>1. toServer' \in Seq(AnyLine)
    BY <1>1, <1>3 DEF MailTypes
  <2> QED
    BY <1>1, <2>1 DEF MailTypes, Between, Steps, smtpVars
<1>5. CASE conn = "open"
  <2>1. Answered /\ (st = "DATA" => AtData)
    BY <1>1, <1>5, OpenAnswered
  <2>2. st # "DATA" /\ st \in Commands
    <3>1. ~ AtData
      BY DEF AtData, Expected, GoodReply
    <3> QED
      BY <2>1, <3>1 DEF Answered
  <2>3. conn' = "closed" /\ toServer' \in {<<>>, <<Quit>>} /\ st' = st /\ client' = client
    BY <1>1, <1>5, <2>1 DEF Answered, smtpVars
  <2>4. ClientInv'
    BY <1>1, <2>2, <2>3 DEF ClientInv, Commands
  <2>5. CanTake(Quit)'
    BY DEF CanTake
  <2>6. ServerInv'
    BY <1>1, <1>3, <2>2, <2>3, <2>5 DEF ServerInv, SoFar, Commands
  <2> QED
    BY <1>1, <1>2, <1>4, <2>4, <2>6
<1>6. CASE conn # "open"
  <2>1. conn' = conn /\ toServer' = toServer /\ conn # "closed"
    BY <1>1, <1>6 DEF Between
  <2>2. ServerInv'
    BY <1>1, <1>6, <2>1, ServerStays
  <2>3. ClientInv'
    BY <1>1, <1>6, <2>1 DEF ClientInv
  <2> QED
    BY <1>1, <1>2, <1>4, <2>2, <2>3
<1> QED
  BY <1>5, <1>6

LEMMA HearGoesOn ==
    ASSUME MailInv, hear, arrived = <<>>, Expected(Head(toClient))
    PROVE  MailInv'
<1> USE DEF MailInv
<1> DEFINE more == nrcpt < Len(message.rcpts)
<1>1. /\ ServerInv /\ ClientInv /\ step \notin {"idle", "quit", "dot"} /\ toClient # <<>>
      /\ UNCHANGED <<smtpVars, message, arrived, conn, result>> /\ arrived' = <<>>
      /\ step' = Following /\ toClient' = Tail(toClient)
      /\ toServer' = (IF conn = "open" THEN toServer \o Sends(Following) ELSE toServer)
      /\ nrcpt' = IF Following = "rcpt" THEN nrcpt + 1 ELSE nrcpt
  BY DEF hear, ClientInv
<1>2. SmtpInv'
  BY <1>1, SessionStays
<1>3. toClient = <<Head(toClient)>> /\ Tail(toClient) = <<>> /\ Head(toClient) = toClient[1] /\ toClient[1] = GoodReply[step]
  <2>1. toClient \in Seq(Nat) /\ Len(toClient) <= 1 /\ toClient # <<>>
    BY <1>1 DEF ClientInv, MailTypes
  <2> QED
    BY <2>1, OneLeft DEF Expected
<1>4. step \in {"banner", "helo", "auth", "mail", "rcpt", "data"}
  BY <1>1 DEF MailTypes, Steps
<1>5. /\ message \in Messages /\ message.from \in Written /\ message.rcpts \in Seq(Written) /\ message.user \in BOOLEAN
      /\ Len(message.rcpts) \in Nat /\ nrcpt \in 0 .. Len(message.rcpts)
      /\ client.rcpts \in Seq(Written) /\ client.user \in BOOLEAN /\ Len(client.rcpts) \in Nat
  <2>1. message \in Messages /\ nrcpt \in 0 .. Len(message.rcpts) /\ client \in Client
    BY DEF MailTypes, SmtpInv
  <2>2. client.rcpts \in Seq(Written) /\ client.user \in BOOLEAN
    BY <2>1 DEF Client
  <2>3. message.rcpts \in Seq(Written) /\ message.from \in Written /\ message.user \in BOOLEAN
    BY <2>1, MessagesAssumption
  <2> QED
    BY <2>1, <2>2, <2>3
<1>6. /\ Following \in {"helo", "auth", "mail", "rcpt", "data", "dot"}
      /\ Following = "dot" <=> step = "data"
      /\ Following = "helo" => step = "banner"
      /\ Following = "auth" => step = "helo" /\ message.user
      /\ Following = "mail" => step = "auth" \/ (step = "helo" /\ ~ message.user)
      /\ Following \in {"rcpt", "data"} => step \in {"mail", "rcpt"} /\ (Following = "rcpt" <=> more)
  BY <1>4, <1>5 DEF Following
<1>7. ASSUME Following # "dot"
      PROVE  \E line \in AnyLine : /\ Sends(Following) = <<line>>
                                   /\ line[1] = IF Following = "auth" THEN "auth plain text" ELSE Following
                                   /\ Following \in {"helo", "data"} => line = Word(Following)
                                   /\ Following = "auth" => line = Word("auth plain text")
                                   /\ Following = "mail" => line = <<"mail", message.from>>
                                   /\ Following = "rcpt" => line = <<"rcpt", message.rcpts[nrcpt + 1]>>
  <2>1. (Following \in {"helo", "data"} => Word(Following) \in AnyLine) /\ Word("auth plain text") \in AnyLine
    <3>1. Following = "helo" => Word(Following) \in AnyLine
      BY DEF AnyLine, Lines
    <3>2. Following = "data" => Word(Following) \in AnyLine
      BY DEF AnyLine, Lines
    <3>3. Word("auth plain text") \in AnyLine
      BY DEF AnyLine, Lines
    <3> QED
      BY <3>1, <3>2, <3>3
  <2>2. <<"mail", message.from>> \in AnyLine
    BY <1>5 DEF AnyLine, Lines, Address
  <2>3. Following = "rcpt" => message.rcpts[nrcpt + 1] \in Written /\ <<"rcpt", message.rcpts[nrcpt + 1]>> \in AnyLine
    <3>1. Following = "rcpt" => nrcpt + 1 \in 1 .. Len(message.rcpts)
      BY <1>5, <1>6
    <3>2. Following = "rcpt" => message.rcpts[nrcpt + 1] \in Written
      BY <1>5, <3>1
    <3> QED
      BY <3>2 DEF AnyLine, Lines, Address
  <2>4. CASE Following \in {"helo", "data"}
    <3>1. Sends(Following) = <<Word(Following)>> /\ Word(Following)[1] = Following
      BY <2>4 DEF Sends, Word
    <3> QED
      BY <2>1, <2>4, <3>1
  <2>5. CASE Following = "auth"
    <3>1. Sends(Following) = <<Word("auth plain text")>> /\ Word("auth plain text")[1] = "auth plain text"
      BY <2>5 DEF Sends, Word
    <3> QED
      BY <2>1, <2>5, <3>1
  <2>6. CASE Following = "mail"
    <3>1. Sends(Following) = <<<<"mail", message.from>>>>
      BY <2>6 DEF Sends
    <3> QED
      BY <2>2, <2>6, <3>1
  <2>7. CASE Following = "rcpt"
    <3>1. Sends(Following) = <<<<"rcpt", message.rcpts[nrcpt + 1]>>>>
      BY <2>7 DEF Sends
    <3> QED
      BY <2>3, <2>7, <3>1
  <2> QED
    BY <1>6, <1>7, <2>4, <2>5, <2>6, <2>7
<1>8. Sends("dot") = Said
  BY DEF Sends, Said
<1>9. step' \in Steps /\ nrcpt' \in 0 .. Len(message.rcpts)
  BY <1>1, <1>5, <1>6 DEF Steps
<1>10. Between' /\ step' # "idle" /\ step' # "quit"
  BY <1>1, <1>6 DEF Between
<1>11. CASE conn # "open"
  <2>1. toServer' = toServer /\ toClient' = <<>>
    BY <1>1, <1>3, <1>11
  <2>2. MailTypes'
    <3>1. <<>> \in Seq(Nat)
      OBVIOUS
    <3>2. step' \in Steps /\ message' \in Messages /\ nrcpt' \in 0 .. Len(message'.rcpts)
      BY <1>1, <1>5, <1>9
    <3>3. toServer' \in Seq(AnyLine) /\ conn' \in {"open", "closed", "broken"} /\ secrets' = 0
          /\ result' \in {"nothing", "sent", "failed"}
      BY <1>1, <2>1 DEF MailTypes, smtpVars
    <3> QED
      BY <2>1, <3>1, <3>2, <3>3 DEF MailTypes
  <2>3. ServerInv'
    BY <1>1, <1>11, <2>1, ServerStays
  <2>4. ClientInv'
    <3>1. (step \in {"banner", "helo", "auth", "mail"} => nrcpt = 0)'
      BY <1>1, <1>6 DEF ClientInv
    <3>2. conn' # "open" /\ conn' # "closed" /\ step' # "quit" /\ result' # "sent" /\ toClient' = <<>> /\ Len(<<>>) <= 1
      BY <1>1, <1>10, <1>11, <2>1 DEF ClientInv, Between, MailTypes
    <3> QED
      BY <3>1, <3>2 DEF ClientInv
  <2> QED
    BY <1>1, <1>2, <1>10, <2>2, <2>3, <2>4
<1>12. CASE conn = "open" /\ Following # "dot"
  <2>1. Answered /\ (st = "DATA" => AtData)
    BY <1>1, <1>12, OpenAnswered
  <2>2. st \in Commands
    <3>1. st = "DATA" => step = "data"
      BY <2>1 DEF AtData
    <3> QED
      BY <1>6, <1>12, <2>1, <3>1 DEF Answered
  <2>3. PICK line \in AnyLine :
          /\ Sends(Following) = <<line>>
          /\ line[1] = IF Following = "auth" THEN "auth plain text" ELSE Following
          /\ Following \in {"helo", "data"} => line = Word(Following)
          /\ Following = "auth" => line = Word("auth plain text")
          /\ Following = "mail" => line = <<"mail", message.from>>
          /\ Following = "rcpt" => line = <<"rcpt", message.rcpts[nrcpt + 1]>>
    BY <1>7, <1>12
  <2>4. toServer' = <<line>> /\ toClient' = <<>> /\ st' = st /\ client' = client
    <3>1. toServer = <<>> /\ <<>> \o <<line>> = <<line>>
      BY <2>1 DEF Answered
    <3> QED
      BY <1>1, <1>3, <1>12, <2>3, <3>1 DEF smtpVars
  <2>5. Following \in {"rcpt", "data"} => Len(client.rcpts) = nrcpt
    <3>1. CASE step = "mail"
      <4>1. st = "WAITRCPT" /\ nrcpt = 0
        BY <1>1, <1>3, <2>1, <3>1 DEF Answered, Replied, GoodReply, ClientInv
      <4>2. client.rcpts = <<>>
        BY <4>1 DEF SmtpInv, EnvInv
      <4> QED
        BY <4>1, <4>2
    <3>2. CASE step = "rcpt"
      BY <1>3, <2>1, <3>2 DEF Answered, Replied, GoodReply
    <3> QED
      BY <1>6, <3>1, <3>2
  <2>6. Following = "mail" => client.user = message.user
    <3>1. step = "auth" => client.user
      BY <1>3, <2>1 DEF Answered, Replied, GoodReply
    <3>2. client.user => message.user
      BY <1>1 DEF ServerInv
    <3> QED
      BY <1>5, <1>6, <3>1, <3>2
  <2>7. CanTake(line)
    <3>1. CASE Following = "rcpt"
      BY <1>5, <1>6, <2>3, <2>5, <3>1 DEF CanTake
    <3>2. CASE Following = "data"
      <4>1. ~ (nrcpt < Len(message.rcpts)) /\ Len(client.rcpts) = nrcpt
        BY <1>6, <2>5, <3>2
      <4>2. Len(client.rcpts) = Len(message.rcpts)
        BY <1>5, <4>1
      <4>3. line = Word("data")
        BY <2>3, <3>2
      <4> QED
        BY <4>2, <4>3 DEF CanTake
    <3>3. CASE Following \in {"helo", "auth", "mail"}
      BY <1>6, <2>3, <2>6, <3>3 DEF CanTake
    <3> QED
      BY <1>6, <1>12, <3>1, <3>2, <3>3
  <2>8. CanTake(line)'
    BY <1>1, <2>4, <2>7, CanTakeStays
  <2>9. MailTypes'
    <3>1. <<line>> \in Seq(AnyLine)
      OBVIOUS
    <3>2. <<>> \in Seq(Nat)
      OBVIOUS
    <3> QED
      BY <1>1, <1>9, <2>4, <3>1, <3>2 DEF MailTypes, smtpVars
  <2>10. ServerInv'
    BY <1>1, <2>2, <2>3, <2>4, <2>8 DEF ServerInv, SoFar, Commands
  <2>11. Asking'
    <3>1. Len(<<line>>) = 1 /\ <<line>>[1] = line
      OBVIOUS
    <3>2. (toServer[1][1] = Verb)'
      BY <1>1, <2>3, <2>4, <3>1 DEF Verb
    <3>3. (step = "rcpt" => nrcpt = Len(client.rcpts) + 1)'
      BY <1>1, <2>4, <2>5
    <3>4. step' \in {"helo", "auth", "mail", "rcpt", "data"}
      BY <1>1, <1>6, <1>12
    <3> QED
      BY <2>2, <2>4, <3>1, <3>2, <3>3, <3>4 DEF Asking
  <2>12. ClientInv'
    <3>1. (step \in {"banner", "helo", "auth", "mail"} => nrcpt = 0)'
      BY <1>1, <1>6 DEF ClientInv
    <3>2. conn' # "closed" /\ step' # "quit" /\ result' # "sent" /\ toClient' = <<>> /\ Len(<<>>) <= 1
      BY <1>1, <1>10, <1>12, <2>4 DEF ClientInv
    <3> QED
      BY <2>11, <3>1, <3>2 DEF ClientInv
  <2> QED
    BY <1>1, <1>2, <1>10, <2>9, <2>10, <2>12
<1>13. CASE conn = "open" /\ Following = "dot"
  <2>1. st = "DATA" /\ mailbody = <<>> /\ toServer = <<>>
    <3>1. Answered /\ (st = "DATA" => AtData)
      BY <1>1, <1>13, OpenAnswered
    <3>2. step = "data" /\ toClient[1] = 354
      BY <1>3, <1>6, <1>13 DEF GoodReply
    <3> QED
      BY <3>1, <3>2 DEF Answered, AtData, Replied
  <2>2. Said \in Seq(AnyLine) /\ Len(Said) \in Nat
    BY <1>5, SaidIs
  <2>3. toServer' = Said /\ toClient' = <<>> /\ st' = "DATA" /\ mailbody' = <<>> /\ step' = "dot" /\ client' = client
    <3>1. <<>> \o Said = Said
      BY <2>2, ConcatEmptySeq
    <3> QED
      BY <1>1, <1>3, <1>8, <1>13, <2>1, <3>1 DEF smtpVars
  <2>4. MailTypes'
    <3>1. <<>> \in Seq(Nat)
      OBVIOUS
    <3> QED
      BY <1>1, <1>9, <2>2, <2>3, <3>1 DEF MailTypes, smtpVars
  <2>5. InText'
    <3>1. Said' = Said
      BY <1>1 DEF Said
    <3>2. Len(Said) \in 0 .. Len(Said) /\ \A i \in 1 .. Len(Said) - 0 : Said[i] = Said[0 + i]
      BY <2>2
    <3>3. Arriving(Len(Said))'
      BY <1>1, <2>2, <2>3, <3>1, <3>2 DEF Arriving, Remains
    <3> QED
      BY <3>1, <3>2, <3>3 DEF InText
  <2>6. ServerInv'
    <3>1. (Begins(mailbody, Text(message)) /\ NoDots(mailbody))'
      BY <1>1, <2>1, <2>3 DEF ServerInv, NoDots
    <3> QED
      BY <1>1, <1>13, <2>1, <2>3, <2>5, <3>1 DEF ServerInv, SoFar, Commands
  <2>7. ClientInv'
    BY <1>1, <1>13, <2>3 DEF ClientInv
  <2> QED
    BY <1>1, <1>2, <1>10, <2>4, <2>6, <2>7
<1> QED
  BY <1>11, <1>12, <1>13

LEMMA HearInv == ASSUME MailInv, hear PROVE MailInv'
BY HearArrived, HearFails, HearGoesOn

-----------------------------------------------------------------------------
(* The connection breaks.                                                  *)
\* What a connection that breaks leaves of the lines under way.
CutOf(s, n, rest) == SubSeq(s, 1, n) \o rest

IsCut(cut, S, s, n, rest) ==
    /\ cut \in Seq(S) /\ Len(cut) = IF rest = <<>> THEN n ELSE n + 1
    /\ \A i \in 1 .. n : cut[i] = s[i]
    /\ rest # <<>> => cut[n + 1] = Dot

LEMMA CutIs ==
    ASSUME NEW S, NEW s \in Seq(S), NEW n \in 0 .. Len(s), NEW rest \in {<<>>, <<Dot>>}, Dot \in S
    PROVE  IsCut(CutOf(s, n, rest), S, s, n, rest)
<1>1. SubSeq(s, 1, n) \in Seq(S) /\ Len(SubSeq(s, 1, n)) = n /\ \A i \in 1 .. n : SubSeq(s, 1, n)[i] = s[i]
  OBVIOUS
<1>2. rest \in Seq(S) /\ Len(rest) = (IF rest = <<>> THEN 0 ELSE 1) /\ (rest # <<>> => rest[1] = Dot)
  <2>1. <<>> \in Seq(S) /\ Len(<<>>) = 0
    BY EmptySeq
  <2>2. <<Dot>> \in Seq(S) /\ Len(<<Dot>>) = 1 /\ <<Dot>>[1] = Dot /\ <<Dot>> # <<>>
    OBVIOUS
  <2>3. CASE rest = <<>>
    BY <2>1, <2>3
  <2>4. CASE rest = <<Dot>>
    BY <2>2, <2>4
  <2> QED
    BY <2>3, <2>4
<1> DEFINE cut == SubSeq(s, 1, n)
<1> HIDE DEF cut
<1>3. n \in Nat /\ cut \in Seq(S) /\ Len(cut) = n /\ \A i \in 1 .. n : cut[i] = s[i]
  BY <1>1 DEF cut
<1>4. /\ cut \o rest \in Seq(S) /\ Len(cut \o rest) = n + Len(rest)
      /\ \A i \in 1 .. n + Len(rest) : (cut \o rest)[i] = IF i <= n THEN cut[i] ELSE rest[i - n]
  <2>1. rest \in Seq(S) /\ cut \in Seq(S)
    BY <1>2, <1>3
  <2>2. /\ cut \o rest \in Seq(S) /\ Len(cut \o rest) = Len(cut) + Len(rest)
        /\ \A i \in 1 .. Len(cut) + Len(rest) : (cut \o rest)[i] = IF i <= Len(cut) THEN cut[i] ELSE rest[i - Len(cut)]
    BY ONLY <2>1, ConcatProperties
  <2> QED
    BY ONLY <1>3, <2>2
<1>5. \A i \in 1 .. n : (cut \o rest)[i] = s[i]
  BY <1>2, <1>3, <1>4
<1>6. rest # <<>> => (cut \o rest)[n + 1] = Dot
  <2> SUFFICES ASSUME rest # <<>> PROVE (cut \o rest)[n + 1] = Dot
    OBVIOUS
  <2>1. n + 1 \in 1 .. n + Len(rest) /\ ~ (n + 1 <= n) /\ n + 1 - n = 1
    BY <1>2, <1>3
  <2> QED
    BY <1>2, <1>4, <2>1
<1> QED
  BY <1>2, <1>3, <1>4, <1>5, <1>6 DEF cut, CutOf, IsCut

LEMMA WordIs == \A v : Word(v)[1] = v /\ Word(v)[2] = ""
BY DEF Word

\* No command reads as a dot when its end is lost.
LEMMA CommandsAreWhole == ASSUME NEW line \in AnyLine, CanTake(line) PROVE ~ Starts(line)
<1>1. line[1] \in {"quit", "helo", "auth plain text", "mail", "rcpt", "data"}
  <2>1. CASE line \in {Word("quit"), Word("helo"), Word("auth plain text"), Word("data")}
    BY <2>1, WordIs
  <2>2. \A a : <<"mail", a>>[1] = "mail" /\ <<"rcpt", a>>[1] = "rcpt"
    OBVIOUS
  <2> QED
    BY <2>1, <2>2 DEF CanTake, Quit
<1>2. Starts(line) => line[1] \in {".", ".."}
  BY WordIs DEF Starts, Dot
<1> QED
  BY <1>1, <1>2

LEMMA BreaksInv == ASSUME MailInv, breaks PROVE MailInv'
<1> USE DEF MailInv
<1>1. /\ conn = "open" /\ conn' = "broken" /\ UNCHANGED <<step, message, nrcpt, result, arrived>> /\ UNCHANGED smtpVars
      /\ step # "idle" /\ toServer \in Seq(AnyLine) /\ toClient \in Seq(Nat) /\ Dot \in TextLines /\ Dot \in AnyLine
  BY DEF breaks, Between, MailTypes, Dot, TextLines, AnyLine, Lines
<1>2. PICK n \in 0 .. Len(toServer), rest \in {<<>>, <<Dot>>} :
        /\ rest # <<>> => n < Len(toServer) /\ Starts(toServer[n + 1])
        /\ toServer' = CutOf(toServer, n, rest)
  BY DEF breaks, CutOf
<1>3. n \in Nat /\ Len(toServer) \in Nat /\ n <= Len(toServer)
  BY <1>1
<1>4. /\ toServer' \in Seq(AnyLine) /\ Len(toServer') = IF rest = <<>> THEN n ELSE n + 1
      /\ \A i \in 1 .. n : toServer'[i] = toServer[i]
      /\ rest # <<>> => toServer'[n + 1] = Dot
  <2>1. IsCut(toServer', AnyLine, toServer, n, rest)
    BY <1>1, <1>2, CutIs
  <2> QED
    BY ONLY <2>1 DEF IsCut
<1>5. toServer = <<>> => toServer' = <<>>
  <2> SUFFICES ASSUME toServer = <<>> PROVE toServer' = <<>>
    OBVIOUS
  <2>1. Len(toServer) = 0
    OBVIOUS
  <2>2. Len(toServer') = 0
    BY <1>2, <1>3, <1>4, <2>1
  <2> QED
    BY <1>4, <2>2, EmptySeq
<1>6. ASSUME NEW S, Dot \in S, toServer \in Seq(S) PROVE toServer' \in Seq(S)
  <2>1. IsCut(toServer', S, toServer, n, rest)
    BY <1>2, <1>6, CutIs
  <2> QED
    BY ONLY <2>1 DEF IsCut
<1>7. toClient' \in Seq(Nat) /\ Len(toClient') <= Len(toClient) /\ (toClient' # <<>> => toClient # <<>> /\ toClient'[1] = toClient[1])
  <2>1. PICK k \in 0 .. Len(toClient) : toClient' = SubSeq(toClient, 1, k)
    BY DEF breaks
  <2>2. toClient' \in Seq(Nat) /\ Len(toClient') = k /\ (\A i \in 1 .. k : toClient'[i] = toClient[i]) /\ k \in Nat /\ k <= Len(toClient)
    BY <1>1, <2>1
  <2>3. toClient' # <<>> => k # 0
    BY <2>2, EmptySeq
  <2>4. toClient = <<>> => Len(toClient) = 0
    OBVIOUS
  <2> QED
    BY <2>2, <2>3, <2>4
<1>8. SmtpInv' /\ MailTypes' /\ Between'
  BY <1>1, <1>4, <1>7, SessionStays DEF MailTypes, Between, smtpVars
<1>9. CASE arrived = <<>>
  <2>1. ServerInv /\ ClientInv
    BY <1>9
  <2>2. (st \in HasFrom => SoFar)' /\ (client.user => message.user)'
    BY <1>1, <2>1 DEF ServerInv, SoFar, smtpVars
  <2>3. (st \in Commands => toServer = <<>> \/ \E line \in AnyLine : toServer = <<line>> /\ CanTake(line))'
    <3> SUFFICES ASSUME st \in Commands, toServer' # <<>>
                 PROVE  \E line \in AnyLine : toServer' = <<line>> /\ CanTake(line)'
      BY <1>1 DEF smtpVars
    <3>1. PICK line \in AnyLine : toServer = <<line>> /\ CanTake(line)
      BY <1>5, <2>1 DEF ServerInv
    <3>2. Len(toServer) = 1 /\ toServer[1] = line
      BY <3>1
    <3>3. Len(toServer') # 0
      BY <1>4, EmptySeq
    <3>4. rest = <<>> /\ n = 1
      <4>1. ~ Starts(line)
        BY <3>1, CommandsAreWhole
      <4>2. rest # <<>> => n = 0
        BY <1>2, <1>3, <3>2
      <4>3. rest = <<>>
        BY <1>2, <3>2, <4>1, <4>2
      <4> QED
        BY <1>3, <1>4, <3>2, <3>3, <4>3
    <3>5. toServer' = toServer
      BY <1>1, <1>4, <3>2, <3>4, SeqEqual
    <3>6. CanTake(line)'
      BY <1>1, <3>1, CanTakeStays DEF smtpVars
    <3> QED
      BY <3>1, <3>5, <3>6
  <2>4. ASSUME st = "DATA" PROVE InText'
    <3>1. Said' = Said /\ mailbody' = mailbody /\ Len(mailbody) \in Nat /\ Len(Said) \in Nat
      BY <1>1, SaidIs DEF Said, smtpVars, MailTypes, SmtpInv
    <3>2. CASE AtData
      <4>1. Len(mailbody) = 0 /\ toServer' = <<>> /\ Len(toServer') = 0
        BY <1>5, <3>2 DEF AtData
      <4>2. Arriving(0)'
        BY <1>1, <3>1, <4>1 DEF Arriving, Remains
      <4> QED
        BY <3>1, <4>2 DEF InText
    <3>3. CASE InText
      <4>1. PICK N \in 0 .. Len(Said) : Arriving(N)
        BY <3>3 DEF InText
      <4>2. PICK k \in Nat : k = Len(mailbody)
        BY <3>1
      <4>3. N = Len(Said) /\ k <= N /\ Len(toServer) = N - k /\ \A i \in 1 .. N - k : toServer[i] = Said[k + i]
        BY <1>1, <4>1, <4>2 DEF Arriving, Remains, Torn
      <4>4. k + n \in 0 .. Len(Said) /\ k + n - k = n /\ k <= k + n
        BY <1>3, <3>1, <4>3
      <4>5. \A i \in 1 .. n : toServer'[i] = Said[k + i]
        BY <1>3, <1>4, <4>3
      <4>6. rest # <<>> => Torn(k + n)'
        <5> SUFFICES ASSUME rest # <<>> PROVE Torn(k + n)'
          OBVIOUS
        <5>1. n + 1 \in 1 .. N - k /\ k + n < Len(Said) /\ k + (n + 1) = k + n + 1
          BY <1>2, <1>3, <3>1, <4>3
        <5>2. toServer[n + 1] = Said[k + n + 1]
          BY <4>3, <5>1
        <5>3. Starts(Said[k + n + 1])
          BY <1>2, <5>2
        <5>4. conn' = "broken" /\ k + n < Len(Said') /\ Starts(Said'[k + n + 1])
          BY <1>1, <3>1, <5>1, <5>3
        <5> QED
          BY <5>4 DEF Torn, Starts
      <4>7. Remains(toServer, k, k + n)'
        <5> DEFINE m == k + n
        <5>1. m - k = n /\ (rest # <<>> => Torn(m)') /\ \A i \in 1 .. n : toServer'[i] = Said'[k + i]
          BY <3>1, <4>4, <4>5, <4>6
        <5> HIDE DEF m
        <5>2. Remains(toServer, k, m)'
          BY <1>4, <5>1 DEF Remains
        <5> QED
          BY <5>2 DEF m
      <4>8. Arriving(k + n)'
        BY <1>1, <3>1, <4>2, <4>4, <4>7 DEF Arriving
      <4> QED
        BY <3>1, <4>4, <4>8 DEF InText
    <3> QED
      BY <2>1, <2>4, <3>2, <3>3 DEF ServerInv
  <2>5. (st = "DATA" => Begins(mailbody, Text(message)) /\ NoDots(mailbody) /\ (AtData \/ InText))'
    BY <1>1, <2>1, <2>4 DEF ServerInv, smtpVars
  <2>6. (st = "DELIVER" => EndsWell(mailbody) /\ toServer \in Seq(TextLines))'
    BY <1>1, <1>6, <2>1, EndsWellStays DEF ServerInv, smtpVars
  <2>7. ServerInv'
    BY <1>1, <1>5, <2>1, <2>2, <2>3, <2>5, <2>6 DEF ServerInv, smtpVars
  <2>8. ClientInv'
    <3>1. Len(toClient') <= 1
      BY <1>1, <1>7, <2>1 DEF ClientInv
    <3> QED
      BY <1>1, <1>7, <2>1, <3>1 DEF ClientInv
  <2> QED
    BY <1>1, <1>8, <1>9, <2>7, <2>8
<1>10. CASE arrived # <<>>
  <2>1. ArrivedInv
    BY <1>10
  <2>2. EndsWell(arrived[1].text)'
    BY <1>1, <2>1, EndsWellStays DEF ArrivedInv
  <2>3. toServer' \in Seq(TextLines \union {Quit})
    BY <1>1, <1>6, <2>1 DEF ArrivedInv
  <2>4. ArrivedInv'
    BY <1>1, <1>7, <2>1, <2>2, <2>3 DEF ArrivedInv, Agreed, smtpVars
  <2> QED
    BY <1>1, <1>8, <1>10, <2>4
<1> QED
  BY <1>9, <1>10

-----------------------------------------------------------------------------
(* The worker.                                                             *)
LEMMA ServedConnects ==
    ASSUME MailInv, conn = "open", step = "banner", toClient = <<>>, connect, Respond(220),
           UNCHANGED <<toServer, arrived, step, message, nrcpt, conn, result>>
    PROVE  MailInv'
<1> USE DEF MailInv
<1>1. arrived = <<>> /\ ServerInv /\ ClientInv
  BY DEF ArrivedInv
<1>2. toServer = <<>> /\ st = "ACCEPT" /\ st' = "WAITHELO" /\ client' = client /\ secrets' = secrets
  BY <1>1 DEF ClientInv, Asking, Answered, connect
<1>3. toClient' = <<220>> /\ Len(<<220>>) = 1
  BY DEF Respond
<1>4. SmtpInv'
  BY ConnectInv
<1>5. MailTypes' /\ Between'
  <2>1. <<220>> \in Seq(Nat)
    OBVIOUS
  <2> QED
    BY <1>2, <1>3, <2>1 DEF MailTypes, Between
<1>6. ServerInv'
  BY <1>1, <1>2 DEF ServerInv, Commands, HasFrom, HasRcpt
<1>7. ClientInv'
  <2>1. Answered'
    BY <1>2, <1>3 DEF Answered, Replied, Commands
  <2> QED
    BY <1>1, <1>3, <2>1 DEF ClientInv
<1> QED
  BY <1>1, <1>4, <1>5, <1>6, <1>7

LEMMA ServedLost ==
    ASSUME MailInv, conn # "open", lost, toServer' = <<>>,
           UNCHANGED <<toClient, arrived, step, message, nrcpt, conn, result>>
    PROVE  MailInv'
<1> USE DEF MailInv
<1>1. st' = "ACCEPT" /\ secrets' = 0 /\ ~ client'.user /\ SmtpInv'
  BY HungupInv DEF lost, Hungup, NewClient
<1>2. <<>> \in Seq(AnyLine)
  OBVIOUS
<1>3. <<>> \in Seq(TextLines \union {Quit})
  OBVIOUS
<1>4. MailTypes' /\ Between'
  BY <1>1, <1>2 DEF MailTypes, Between
<1>5. CASE arrived = <<>>
  BY <1>1, <1>4, <1>5 DEF ServerInv, ClientInv, Commands, HasFrom, HasRcpt
<1>6. CASE arrived # <<>>
  <2>1. EndsWell(arrived[1].text)'
    BY <1>6, EndsWellStays DEF ArrivedInv
  <2>2. ArrivedInv'
    BY <1>1, <1>3, <1>6, <2>1 DEF ArrivedInv, Agreed
  <2> QED
    BY <1>1, <1>4, <1>6, <2>2
<1> QED
  BY <1>5, <1>6

\* The mail that is delivered is the one that was sent.
LEMMA ServedDelivers ==
    ASSUME MailInv, NEW code \in {250, 550}, delivered(code), Respond(code),
           arrived' = Append(arrived, [from |-> env["from"], rcpts |-> env["rcpt"], text |-> mailbody,
                                       user |-> Has(env, "user"), code |-> code]),
           UNCHANGED <<toServer, step, message, nrcpt, conn, result>>
    PROVE  MailInv'
<1> USE DEF MailInv
<1>1. st = "DELIVER" /\ st' = "WAITMAILFROM" /\ secrets' = secrets
  BY DEF delivered, NextMail
<1>2. arrived = <<>> /\ ServerInv /\ ClientInv
  BY <1>1 DEF ArrivedInv
<1>3. /\ SoFar /\ Len(client.rcpts) = Len(message.rcpts) /\ conn # "closed" /\ EndsWell(mailbody)
      /\ toServer \in Seq(TextLines) /\ step \in {"dot", "idle"}
  BY <1>1, <1>2 DEF ServerInv, HasFrom, HasRcpt
<1>4. client.rcpts = message.rcpts
  <2>1. client.rcpts \in Seq(Written) /\ message.rcpts \in Seq(Written)
    BY MessagesAssumption DEF SmtpInv, Client, MailTypes
  <2> QED
    <3>1. Begins(client.rcpts, message.rcpts) /\ Len(client.rcpts) = Len(message.rcpts)
      BY <1>3 DEF SoFar
    <3> QED
      BY ONLY <2>1, <3>1, SeqEqual DEF Begins
<1>5. /\ env["from"] = Normal[message.from] /\ env["rcpt"] = AllNormal(message.rcpts)
      /\ Has(env, "user") = message.user
  <2>1. env["from"] = Normal[message.from] /\ env["rcpt"] = AllNormal(message.rcpts)
    BY <1>1, <1>3, <1>4 DEF SmtpInv, EnvInv, HasFrom, HasRcpt, SoFar
  <2>2. (Has(env, "user") <=> client.user) /\ client.user = message.user
    BY <1>3 DEF SmtpInv, EnvInv, SoFar
  <2>3. message.user \in BOOLEAN /\ Has(env, "user") \in BOOLEAN
    BY MessagesAssumption DEF MailTypes, Has
  <2> QED
    BY <2>1, <2>2, <2>3
<1>6. PICK mail : /\ mail.from = env["from"] /\ mail.rcpts = env["rcpt"] /\ mail.text = mailbody /\ mail.code = code
                  /\ mail.user = Has(env, "user") /\ arrived' = Append(arrived, mail)
  <2> DEFINE m == [from |-> env["from"], rcpts |-> env["rcpt"], text |-> mailbody,
                   user |-> Has(env, "user"), code |-> code]
  <2>1. /\ m.from = env["from"] /\ m.rcpts = env["rcpt"] /\ m.text = mailbody /\ m.code = code
        /\ m.user = Has(env, "user")
    OBVIOUS
  <2>2. arrived' = Append(arrived, m)
    OBVIOUS
  <2> HIDE DEF m
  <2> QED
    BY <2>1, <2>2
<1>7. arrived' = <<mail>> /\ arrived'[1] = mail /\ arrived' # <<>>
  BY <1>2, <1>6
<1>8. Agreed(mail)'
  BY <1>5, <1>6 DEF Agreed, AllNormal
<1>9. EndsWell(mail.text)'
  BY <1>3, <1>6, EndsWellStays
<1>10. toServer' \in Seq(TextLines \union {Quit})
  BY <1>3
<1>11. toClient' = (IF conn = "open" THEN Append(toClient, code) ELSE toClient) /\ toClient' \in Seq(Nat)
  BY DEF Respond, MailTypes
<1>12. SmtpInv' /\ MailTypes' /\ Between'
  <2>1. step = "idle" => toClient' = <<>>
    BY <1>11 DEF Between
  <2> QED
    BY <1>1, <1>11, <2>1, DeliveredInv DEF MailTypes, Between
<1>13. step = "dot" => IF toClient' = <<>> THEN conn = "broken" ELSE toClient'[1] = code
  <2>1. step = "dot" => toClient = <<>>
    BY <1>2 DEF ClientInv
  <2>2. Append(<<>>, code) = <<code>> /\ <<code>>[1] = code /\ <<code>> # <<>>
    OBVIOUS
  <2>3. conn = "open" \/ conn = "broken"
    BY <1>3 DEF MailTypes
  <2> QED
    BY ONLY <1>11, <2>1, <2>2, <2>3
<1>14. result # "sent" /\ (result = "failed" => conn = "broken")
  BY <1>2, <1>3 DEF ClientInv, Between, MailTypes
<1>15. IsText(mail.text)
  BY <1>6 DEF SmtpInv, IsText
<1>16. mail.code \in {250, 550} /\ mail.code = code
  BY ONLY <1>6, code \in {250, 550}
<1>17. UNCHANGED <<step, conn, result>>
  OBVIOUS
<1>18. ArrivedInv'
  <2>1. arrived' = <<arrived'[1]>> /\ arrived'[1] = mail /\ IsText(mail.text)'
    BY ONLY <1>7, <1>15 DEF IsText
  <2> QED
    BY ONLY <1>1, <1>3, <1>8, <1>9, <1>10, <1>13, <1>14, <1>16, <1>17, <2>1 DEF ArrivedInv
<1> QED
  BY <1>7, <1>12, <1>18

\* What a command of dosmtp leads to.
Leads(line, code) ==
    /\ code # 0 /\ st' \in Commands \union {"DATA"} /\ secrets' = 0
    /\ client'.user => message.user
    /\ st' \in HasFrom => /\ client'.from = message.from /\ client'.user = message.user
                          /\ Begins(client'.rcpts, message.rcpts)
    /\ code = 235 => client'.user
    /\ line[1] = "mail" /\ code = 250 => st' = "WAITRCPT"
    /\ line[1] = "rcpt" /\ code = 250 => st' = "WAITRCPTORDATA" /\ Len(client'.rcpts) = Len(client.rcpts) + 1
    /\ code = 354 => st' = "DATA"
    /\ st' = "DATA" => /\ line = Word("data") /\ code = 354 /\ mailbody' = <<>>
                       /\ Len(client'.rcpts) = Len(message.rcpts)

LEMMA CommandLeads ==
    ASSUME SmtpInv, secrets = 0, st \in Commands, message \in Messages,
           client.user => message.user, st \in HasFrom => SoFar,
           NEW line \in AnyLine, CanTake(line), line # Quit, NEW code \in Nat, Take(line, code)
    PROVE  Leads(line, code)
<1>1. /\ client \in Client /\ client.user \in BOOLEAN /\ client.rcpts \in Seq(Written) /\ Len(client.rcpts) \in Nat
      /\ message.user \in BOOLEAN /\ message.rcpts \in Seq(Written)
  <2>1. client \in Client
    BY DEF SmtpInv
  <2>2. client.user \in BOOLEAN /\ client.rcpts \in Seq(Written)
    BY <2>1 DEF Client
  <2>3. message.user \in BOOLEAN /\ message.rcpts \in Seq(Written)
    BY MessagesAssumption
  <2> QED
    BY <2>1, <2>2, <2>3
<1>2. /\ Word("helo")[1] = "helo" /\ Word("auth plain text")[1] = "auth plain text" /\ Word("data")[1] = "data"
      /\ Word("quit")[1] = "quit"
  BY WordIs
<1>3. /\ line[1] \in {"helo", "auth plain text", "mail", "rcpt", "data"}
      /\ line[1] = "auth plain text" => message.user
      /\ line[1] = "mail" => line = <<"mail", message.from>> /\ client.user = message.user
      /\ line[1] = "rcpt" => Len(client.rcpts) < Len(message.rcpts) /\ line = <<"rcpt", message.rcpts[Len(client.rcpts) + 1]>>
      /\ line[1] = "data" => line = Word("data") /\ Len(client.rcpts) = Len(message.rcpts)
  <2>1. \A a : <<"mail", a>>[1] = "mail" /\ <<"rcpt", a>>[1] = "rcpt"
    OBVIOUS
  <2> QED
    BY <1>2, <2>1 DEF CanTake, Quit
<1>4. ~ empty(line, code) /\ ~ bodyLine(line, code) /\ ~ dot(line, code) /\ ~ secret(line, code) /\ ~ (line[1] = "quit" /\ quit(code))
  <2>1. st # "DATA" /\ line[1] # "" /\ line[1] # "quit"
    BY <1>3 DEF Commands
  <2>2. ~ empty(line, code)
    BY <2>1 DEF empty
  <2>3. ~ bodyLine(line, code) /\ ~ dot(line, code)
    BY <2>1 DEF bodyLine, dot
  <2>4. ~ secret(line, code)
    BY DEF secret
  <2> QED
    BY <2>1, <2>2, <2>3, <2>4
\* A line after which the client is as it was, but for a user.
<1>5. ASSUME st' = st, secrets' = 0, code \in {235, 334, 500, 535, 550}, code # 334, Heard(line, code),
             code = 235 => message.user
      PROVE  Leads(line, code)
  <2>1. client'.from = client.from /\ client'.rcpts = client.rcpts /\ client'.user = (client.user \/ code = 235)
    BY <1>1, <1>5, HeardIs
  <2>2. client'.user => message.user
    BY <1>5, <2>1
  <2>3. code = 235 => client'.user
    BY <2>1
  <2>4. client.user = message.user => client'.user = message.user
    <3>1. client' \in Client
      BY <1>1, <1>5, HeardIs
    <3>2. client'.user \in BOOLEAN
      BY <3>1 DEF Client
    <3> QED
      BY <1>1, <1>5, <2>1, <3>2
  <2> QED
    BY <1>5, <2>1, <2>2, <2>3, <2>4 DEF Leads, SoFar, Commands
<1>6. CASE auth(line, code)
  <2>1. line[1] = "auth plain text" => Credentials(line) = 0
    BY DEF Credentials
  <2>2. line[1] \in {"helo", "mail", "rcpt", "data"} => Credentials(line) = 3
    BY DEF Credentials
  <2>3. line[1] = "auth plain text" /\ Credentials(line) = 0
    <3>1. Credentials(line) < 3
      BY <1>6 DEF auth, IsAuth
    <3>2. Credentials(line) # 3
      BY <3>1
    <3> QED
      BY <1>3, <2>1, <2>2, <3>2
  <2>4. authplain(line, code) /\ st' = st /\ code \in {235, 334, 535}
    BY <1>6, <2>3 DEF auth
  <2> QED
    BY <1>3, <1>5, <2>3, <2>4 DEF authplain
<1>7. CASE unknown(line, code)
  BY <1>5, <1>7 DEF unknown
<1>8. CASE helo(line, code)
  <2>1. st' = "WAITMAILFROM" /\ secrets' = secrets /\ Heard(line, code) /\ code = 250 /\ line[1] = "helo"
    BY <1>8 DEF helo, Command
  <2>2. client'.user = client.user
    BY <1>1, <2>1, HeardIs
  <2> QED
    BY <2>1, <2>2 DEF Leads, Commands, HasFrom, HasRcpt
<1>9. CASE mailFrom(line, code)
  <2>1. st' = "WAITRCPT" /\ secrets' = secrets /\ code = 250 /\ line[1] = "mail"
    BY <1>9 DEF mailFrom, Command
  <2>2. client'.user = client.user /\ client'.from = line[2] /\ client'.rcpts = <<>>
    BY <1>9, MailFromInv
  <2>3. client'.from = message.from /\ client'.user = message.user
    BY <1>3, <2>1, <2>2
  <2>4. Begins(<<>>, message.rcpts)
    BY <1>1 DEF Begins
  <2> QED
    BY <1>1, <2>1, <2>2, <2>3, <2>4 DEF Leads, Commands
<1>10. CASE rcptTo(line, code)
  <2>1. secrets' = secrets /\ code \in {250, 550} /\ line[1] = "rcpt" /\ st \in {"WAITRCPT", "WAITRCPTORDATA"} /\ Heard(line, code)
    BY <1>10 DEF rcptTo, Command
  <2>2. /\ client'.from = client.from /\ client'.user = client.user
        /\ IF code = 250 THEN client'.rcpts = Append(client.rcpts, line[2]) /\ st' = "WAITRCPTORDATA"
           ELSE client'.rcpts = client.rcpts /\ st' = st
    BY <1>10, RcptToInv
  <2>3. SoFar
    BY <2>1 DEF HasFrom, HasRcpt
  <2>4. CASE code = 250
    <3>1. line[2] = message.rcpts[Len(client.rcpts) + 1] /\ Len(client.rcpts) < Len(message.rcpts)
      BY <1>3, <2>1
    <3>2. line[2] \in Written
      BY <2>1, LineIs
    <3>3. /\ Len(client'.rcpts) = Len(client.rcpts) + 1
          /\ \A i \in 1 .. Len(client.rcpts) : client'.rcpts[i] = client.rcpts[i]
          /\ client'.rcpts[Len(client.rcpts) + 1] = line[2]
      <4>1. client.rcpts \in Seq(Written)
        BY <1>1
      <4>2. client'.rcpts = Append(client.rcpts, line[2])
        BY <2>2, <2>4
      <4> QED
        BY ONLY <3>2, <4>1, <4>2, AppendProperties
    <3>4. Begins(client'.rcpts, message.rcpts)
      <4>1. Len(client'.rcpts) <= Len(message.rcpts)
        BY <1>1, <3>1, <3>3
      <4>2. ASSUME NEW i \in 1 .. Len(client'.rcpts) PROVE client'.rcpts[i] = message.rcpts[i]
        <5>1. i \in 1 .. Len(client.rcpts) \/ i = Len(client.rcpts) + 1
          BY <1>1, <3>3
        <5> QED
          BY <2>3, <3>1, <3>3, <5>1 DEF SoFar, Begins
      <4> QED
        BY <4>1, <4>2 DEF Begins
    <3>5. client'.from = message.from /\ client'.user = message.user
      BY <2>2, <2>3 DEF SoFar
    <3> QED
      BY <2>1, <2>2, <2>4, <3>3, <3>4, <3>5 DEF Leads, Commands
  <2>5. CASE code # 250
    BY <1>5, <2>1, <2>2, <2>5
  <2> QED
    BY <2>4, <2>5
<1>11. CASE data(line, code)
  <2>1. /\ st' = "DATA" /\ secrets' = secrets /\ code = 354 /\ line[1] = "data" /\ mailbody' = mailbody
        /\ st = "WAITRCPTORDATA"
    BY <1>11 DEF data, Command
  <2>2. client'.from = client.from /\ client'.user = client.user /\ client'.rcpts = client.rcpts
    BY <1>11, DataInv
  <2>3. SoFar /\ mailbody = <<>>
    BY <2>1 DEF HasFrom, HasRcpt, SmtpInv
  <2> QED
    BY <1>3, <2>1, <2>2, <2>3 DEF Leads, SoFar
<1> QED
  BY <1>4, <1>6, <1>7, <1>8, <1>9, <1>10, <1>11 DEF Take

\* The first line that is there, taken.
TakesLine ==
    /\ toServer # <<>> /\ toServer' = Tail(toServer)
    /\ \E code \in Replies(Head(toServer)) : Take(Head(toServer), code) /\ Respond(code)
    /\ UNCHANGED <<arrived, step, message, nrcpt, conn, result>>

LEMMA TakeListens ==
    ASSUME secrets = 0, NEW line, NEW code, Take(line, code)
    PROVE  Listening \/ st = "DATA"
<1>1. ~ secret(line, code)
  BY DEF secret
<1>2. (auth(line, code) => Listening) /\ (unknown(line, code) => Listening) /\ (empty(line, code) => Listening)
  BY DEF auth, unknown, empty
<1>3. (helo(line, code) => Listening) /\ (mailFrom(line, code) => Listening)
  BY DEF helo, mailFrom, Command
<1>4. (rcptTo(line, code) => Listening) /\ (data(line, code) => Listening)
  BY DEF rcptTo, data, Command
<1>5. (bodyLine(line, code) => st = "DATA") /\ (dot(line, code) => st = "DATA") /\ (quit(code) => Listening)
  BY DEF bodyLine, dot, quit
<1> QED
  BY <1>1, <1>2, <1>3, <1>4, <1>5 DEF Take

LEMMA LineTaken ==
    ASSUME MailInv, TakesLine
    PROVE  /\ Head(toServer) \in AnyLine /\ Head(toServer) = toServer[1] /\ Len(toServer) >= 1
           /\ toServer' \in Seq(AnyLine) /\ Len(toServer') = Len(toServer) - 1
           /\ \A i \in 1 .. Len(toServer) - 1 : toServer'[i] = toServer[i + 1]
           /\ SmtpInv' /\ st \in Commands \union {"DATA"}
<1>1. /\ Head(toServer) \in AnyLine /\ Head(toServer) = toServer[1] /\ Len(toServer) \in Nat \ {0}
      /\ toServer' \in Seq(AnyLine) /\ Len(toServer') = Len(toServer) - 1
      /\ \A i \in 1 .. Len(toServer) - 1 : toServer'[i] = toServer[i + 1]
  BY EmptySeq, HeadTailProperties DEF MailInv, MailTypes, TakesLine
<1>2. PICK code \in Replies(Head(toServer)) : Take(Head(toServer), code)
  BY DEF TakesLine
<1>3. code \in Nat
  BY DEF Replies
<1>4. SmtpInv'
  BY <1>1, <1>2, <1>3, TakeInv DEF MailInv
<1>5. st \in Commands \union {"DATA"}
  <2>1. secrets = 0
    BY DEF MailInv, MailTypes
  <2>2. Listening \/ st = "DATA"
    BY <1>2, <2>1, TakeListens
  <2> QED
    BY <2>2 DEF Listening
<1> QED
  BY <1>1, <1>4, <1>5

LEMMA CommandTaken ==
    ASSUME MailInv, TakesLine, arrived = <<>>, st \in Commands
    PROVE  MailInv'
<1> USE DEF MailInv
<1>1. ServerInv /\ ClientInv /\ secrets = 0 /\ message \in Messages
      /\ UNCHANGED <<arrived, step, message, nrcpt, conn, result>>
  BY DEF TakesLine, MailTypes
<1>2. PICK line \in AnyLine : toServer = <<line>> /\ CanTake(line)
  BY <1>1 DEF ServerInv, TakesLine
<1>3. PICK code \in Replies(line) : Take(line, code) /\ Respond(code)
  BY <1>2 DEF TakesLine
<1>4. toServer' = <<>> /\ SmtpInv' /\ code \in Nat /\ Len(toServer) = 1 /\ toServer[1] = line
  <2>1. Head(<<line>>) = line /\ Tail(<<line>>) = <<>> /\ <<line>>[1] = line /\ Len(<<line>>) = 1
    OBVIOUS
  <2>2. code \in Nat
    BY DEF Replies
  <2> QED
    BY <1>2, <2>1, <2>2, LineTaken DEF TakesLine
<1>5. /\ toClient \in Seq(Nat) /\ toClient' \in Seq(Nat)
      /\ toClient' = IF code # 0 /\ conn = "open" THEN Append(toClient, code) ELSE toClient
  BY <1>3, <1>4 DEF MailTypes, Respond
<1>6. conn = "open" => Asking /\ toClient' = (IF code = 0 THEN <<>> ELSE <<code>>)
  <2> SUFFICES ASSUME conn = "open" PROVE Asking /\ toClient' = (IF code = 0 THEN <<>> ELSE <<code>>)
    OBVIOUS
  <2>1. Asking
    BY <1>1, <1>2, <1>4 DEF ClientInv, Answered, Commands
  <2>2. toClient = <<>>
    BY <2>1 DEF Asking
  <2> QED
    BY <1>5, <2>1, <2>2
<1>7. secrets' = 0 /\ (line = Quit => st' = "ACCEPT" /\ ~ client'.user) /\ (line # Quit => Leads(line, code))
  <2>1. CASE line = Quit
    <3>1. line[1] = "quit"
      BY <2>1, WordIs DEF Quit
    <3>2. Credentials(line) = 3
      BY <3>1 DEF Credentials
    <3>3. quit(code)
      BY <1>1, <1>3, <3>1, <3>2 DEF Take, auth, IsAuth, secret, helo, mailFrom, rcptTo, data, Command, unknown, Known, empty,
           bodyLine, dot, Commands
    <3> QED
      BY <2>1, <3>3 DEF quit, Hungup, NewClient
  <2>2. CASE line # Quit
    <3>1. Leads(line, code)
      BY <1>1, <1>2, <1>3, <1>4, <2>2, CommandLeads DEF ServerInv
    <3> QED
      BY <2>2, <3>1 DEF Leads
  <2> QED
    BY <2>1, <2>2
<1>8. MailTypes' /\ Between'
  <2>1. <<>> \in Seq(AnyLine)
    OBVIOUS
  <2> QED
    BY <1>1, <1>4, <1>5, <1>7, <2>1 DEF MailTypes, Between
<1>9. ServerInv'
  <2>1. CASE line = Quit
    BY <1>4, <1>7, <2>1 DEF ServerInv, HasFrom, HasRcpt, Commands
  <2>2. CASE line # Quit
    <3>1. Leads(line, code)
      BY <1>7, <2>2
    <3>2. (st \in HasFrom => SoFar)' /\ (client.user => message.user)' /\ st' # "DELIVER"
      BY <1>1, <3>1 DEF Leads, SoFar, Commands
    <3>3. ASSUME st' = "DATA" PROVE conn' # "closed" /\ (Begins(mailbody, Text(message)) /\ NoDots(mailbody) /\ (AtData \/ InText))'
      <4>1. line = Word("data") /\ code = 354 /\ mailbody' = <<>>
        BY <3>1, <3>3 DEF Leads
      <4>2. conn # "closed"
        <5>1. conn = "closed" => line = Quit
          BY <1>1, <1>2, <1>4 DEF ClientInv
        <5> QED
          BY <2>2, <5>1
      <4>3. (Begins(mailbody, Text(message)) /\ NoDots(mailbody))'
        BY <1>1, <4>1, TextIs DEF Begins, NoDots
      <4>4. CASE conn = "open"
        <5>1. step = "data"
          <6>1. line[1] = "data" /\ line[1] = Verb
            BY <1>4, <1>6, <4>1, <4>4, WordIs DEF Asking
          <6> QED
            BY <6>1 DEF Verb
        <5> QED
          BY <1>1, <1>4, <1>6, <4>1, <4>2, <4>3, <4>4, <5>1 DEF AtData
      <4>5. CASE conn = "broken"
        <5>1. Len(Said') \in Nat
          BY <1>1, SaidIs DEF Said
        <5>2. Len(mailbody') = 0 /\ Len(toServer') = 0 /\ conn' = "broken"
          BY <1>1, <1>4, <4>1, <4>5
        <5>3. Arriving(0)'
          BY <5>2 DEF Arriving, Remains
        <5> QED
          BY <1>1, <4>2, <4>3, <5>1, <5>3 DEF InText
      <4> QED
        BY <4>2, <4>4, <4>5 DEF MailTypes
    <3>4. (st = "DATA" => Len(client.rcpts) = Len(message.rcpts))'
      BY <1>1, <3>1 DEF Leads
    <3> QED
      BY <1>4, <3>2, <3>3, <3>4 DEF ServerInv
  <2> QED
    BY <2>1, <2>2
<1>10. ClientInv'
  <2>1. /\ Len(toClient') <= 1 /\ (step = "dot" => toClient' = <<>>)
    <3>1. Len(<<>>) = 0 /\ Len(<<code>>) = 1
      OBVIOUS
    <3>2. conn = "open" => Len(toClient') <= 1 /\ step # "dot"
      <4>1. conn = "open" => step # "dot" /\ (toClient' = <<>> \/ toClient' = <<code>>)
        BY <1>6 DEF Asking
      <4>2. toClient' = <<>> => Len(toClient') <= 1
        BY <3>1
      <4>3. toClient' = <<code>> => Len(toClient') <= 1
        BY <3>1
      <4> QED
        BY <4>1, <4>2, <4>3
    <3>3. conn # "open" => toClient' = toClient
      BY <1>5
    <3> QED
      BY <1>1, <3>2, <3>3 DEF ClientInv
  <2>2. conn = "closed" => st' \notin {"DATA", "DELIVER"}
    <3>1. conn = "closed" => line = Quit
      BY <1>1, <1>2, <1>4 DEF ClientInv
    <3> QED
      BY <1>7, <3>1
  <2>3. ASSUME conn = "open" PROVE Answered'
    <3>1. line[1] = Verb /\ Asking
      BY <1>4, <1>6, <2>3 DEF Asking
    <3>2. Leads(line, code)
      <4>1. line[1] # "quit"
        BY <3>1 DEF Asking, Verb
      <4> QED
        BY <1>7, <4>1, WordIs DEF Quit
    <3>3. toClient' = <<code>> /\ Len(<<code>>) = 1 /\ <<code>>[1] = code
      BY <1>6, <2>3, <3>2 DEF Leads
    <3>4. Replied(code)'
      <4>1. step = "auth" /\ code = 235 => client'.user
        BY <3>2 DEF Leads
      <4>2. step = "mail" /\ code = 250 => st' = "WAITRCPT"
        BY <3>1, <3>2 DEF Leads, Verb
      <4>3. step = "rcpt" /\ code = 250 => st' = "WAITRCPTORDATA" /\ Len(client'.rcpts) = nrcpt
        <5>1. step = "rcpt" => nrcpt = Len(client.rcpts) + 1 /\ line[1] = "rcpt"
          BY <3>1 DEF Asking, Verb
        <5> QED
          BY <3>2, <5>1 DEF Leads
      <4>4. step = "data" /\ code = 354 => st' = "DATA"
        BY <3>2 DEF Leads
      <4> QED
        BY <1>1, <4>1, <4>2, <4>3, <4>4 DEF Replied
    <3> QED
      BY <1>1, <1>4, <3>1, <3>2, <3>3, <3>4 DEF Answered, Asking, Leads
  <2> QED
    BY <1>1, <1>4, <2>1, <2>2, <2>3 DEF ClientInv
<1> QED
  BY <1>1, <1>4, <1>8, <1>9, <1>10

\* The worker reads on in the text.
LEMMA TextTaken ==
    ASSUME MailInv, TakesLine, arrived = <<>>, st = "DATA"
    PROVE  MailInv'
<1> USE DEF MailInv
<1> DEFINE line == toServer[1]
<1>1. /\ ServerInv /\ ClientInv /\ secrets = 0 /\ message \in Messages /\ SmtpInv'
      /\ UNCHANGED <<arrived, step, message, nrcpt, conn, result>>
      /\ Begins(mailbody, Text(message)) /\ NoDots(mailbody) /\ step \in {"dot", "idle"} /\ conn # "closed"
      /\ SoFar /\ Len(client.rcpts) = Len(message.rcpts)
  BY LineTaken DEF TakesLine, MailTypes, ServerInv, HasFrom, HasRcpt
<1>2. /\ line \in AnyLine /\ Len(toServer) >= 1 /\ Len(toServer) \in Nat
      /\ toServer' \in Seq(AnyLine) /\ Len(toServer') = Len(toServer) - 1
      /\ \A i \in 1 .. Len(toServer) - 1 : toServer'[i] = toServer[i + 1]
  BY LineTaken DEF MailTypes
<1>3. Take(line, 0) /\ Respond(0)
  <2>1. Replies(Head(toServer)) = {0} /\ Head(toServer) = line
    BY LineTaken DEF Replies
  <2> QED
    BY <2>1 DEF TakesLine
<1>4. toClient' = toClient
  BY <1>3 DEF Respond
<1> HIDE DEF line
<1>5. bodyLine(line, 0) \/ dot(line, 0)
  <2>1. ~ Listening
    BY DEF Listening, Commands
  <2>2. ~ auth(line, 0) /\ ~ unknown(line, 0) /\ ~ empty(line, 0) /\ ~ quit(0)
    BY <2>1 DEF auth, unknown, empty, quit
  <2>3. ~ helo(line, 0) /\ ~ mailFrom(line, 0) /\ ~ rcptTo(line, 0) /\ ~ data(line, 0) /\ ~ secret(line, 0)
    BY <1>1 DEF helo, mailFrom, rcptTo, data, secret
  <2> QED
    BY <1>3, <2>2, <2>3 DEF Take
<1>6. secrets' = 0 /\ client'.rcpts = client.rcpts /\ client'.from = client.from /\ client'.user = client.user
      /\ client'.user \in BOOLEAN
  <2>1. client \in Client
    BY DEF SmtpInv
  <2>2. client.user \in BOOLEAN
    BY <2>1 DEF Client
  <2>3. CASE bodyLine(line, 0)
    BY <1>1, <2>1, <2>2, <2>3 DEF bodyLine, Client
  <2>4. CASE dot(line, 0)
    BY <1>1, <2>2, <2>4 DEF dot
  <2> QED
    BY <1>5, <2>3, <2>4
<1>7. MailTypes' /\ Between'
  BY <1>1, <1>2, <1>4, <1>6 DEF MailTypes, Between
<1>8. SoFar' /\ (client.user => message.user)' /\ (Len(client.rcpts) = Len(message.rcpts))'
  BY <1>1, <1>6 DEF SoFar
<1>9. st' \in {"DATA", "DELIVER"}
  BY <1>5 DEF bodyLine, dot
<1>10. ClientInv'
  <2>1. conn = "open" => step = "dot"
    BY <1>1 DEF Between
  <2> QED
    BY <1>1, <1>4, <1>9, <2>1 DEF ClientInv
<1>11. PICK N \in 0 .. Len(Said) : Arriving(N)
  <2>1. ~ AtData
    BY DEF AtData, TakesLine
  <2> QED
    BY <1>1, <2>1 DEF ServerInv, InText
<1>12. PICK k \in Nat : k = Len(mailbody)
  BY DEF SmtpInv
<1>13. PICK T \in Nat : T = Len(Text(message))
  BY <1>1, SaidIs
<1>14. /\ Len(Said) = T + 1 /\ (\A i \in 1 .. T : Said[i] = Text(message)[i]) /\ Said[T + 1] = Dot /\ k <= T
       /\ \A i \in 1 .. T + 1 : Said[i] \in TextLines
       /\ Said' = Said /\ N \in Nat /\ N <= T + 1 /\ TextLines \subseteq AnyLine
  <2>1. Said \in Seq(TextLines) /\ Len(Said) = T + 1
    BY <1>1, <1>13, SaidIs
  <2>2. \A i \in 1 .. T + 1 : Said[i] \in TextLines
    BY <2>1
  <2>3. N \in Nat /\ N <= T + 1
    BY <1>11, <1>13, <2>1
  <2> QED
    BY <1>1, <1>12, <1>13, <2>1, <2>2, <2>3, SaidIs DEF Begins, Said
<1>15. /\ k <= N /\ (N = T + 1 \/ conn = "broken")
       /\ \A i \in 1 .. N - k : toServer[i] = Said[k + i]
       /\ \/ Len(toServer) = N - k
          \/ Len(toServer) = N - k + 1 /\ toServer[N - k + 1] = Dot /\ Torn(N)
  BY <1>11, <1>12, <1>14 DEF Arriving, Remains
<1>16. CASE bodyLine(line, 0)
  <2>1. mailbody' = Append(mailbody, line) /\ line # Dot /\ st' = "DATA"
    BY <1>16, WordIs DEF bodyLine, Dot
  <2>2. k + 1 <= N /\ line = Said[k + 1] /\ k + 1 <= T
    <3>1. N # k
      <4> SUFFICES ASSUME N = k PROVE FALSE
        OBVIOUS
      <4>1. N - k = 0 /\ N - k + 1 = 1
        BY <1>14
      <4> QED
        BY <1>2, <1>15, <2>1, <4>1 DEF line
    <3>2. k + 1 <= N /\ 1 \in 1 .. N - k
      BY <1>12, <1>14, <1>15, <3>1
    <3>3. line = Said[k + 1]
      BY <1>15, <3>2 DEF line
    <3>4. k # T
      BY <1>14, <2>1, <3>3
    <3> QED
      BY <1>12, <1>13, <1>14, <3>2, <3>3, <3>4
  <2>3. /\ Len(mailbody') = k + 1 /\ (\A i \in 1 .. k : mailbody'[i] = mailbody[i]) /\ mailbody'[k + 1] = line
        /\ mailbody \in Seq(AnyLine)
    BY <1>2, <1>12, <2>1, AppendProperties DEF SmtpInv
  <2>4. (Begins(mailbody, Text(message)) /\ NoDots(mailbody))'
    <3>1. ASSUME NEW i \in 1 .. k + 1 PROVE mailbody'[i] = Text(message)[i] /\ mailbody'[i] # Dot
      <4>1. CASE i = k + 1
        <5>1. k + 1 \in 1 .. T
          BY <1>12, <1>13, <2>2
        <5> QED
          BY <1>14, <2>1, <2>2, <2>3, <4>1, <5>1
      <4>2. CASE i # k + 1
        <5>1. i \in 1 .. k
          BY <1>12, <4>2
        <5> QED
          BY <1>1, <1>12, <2>3, <5>1 DEF Begins, NoDots
      <4> QED
        BY <4>1, <4>2
    <3>2. Len(mailbody') <= Len(Text(message))
      BY <1>13, <2>2, <2>3
    <3> QED
      BY <1>1, <2>3, <3>1, <3>2 DEF Begins, NoDots
  <2>5. Remains(toServer, k + 1, N)'
    <3> DEFINE m == k + 1
    <3>1. N - m = N - k - 1 /\ m \in Nat /\ m <= N
      BY <1>12, <1>14, <2>2
    <3>2. \A i \in 1 .. N - m : toServer'[i] = Said[m + i]
      <4> TAKE i \in 1 .. N - m
      <4>1. i + 1 \in 1 .. N - k /\ m + i = k + (i + 1) /\ i \in 1 .. Len(toServer) - 1
        BY <1>2, <1>12, <1>14, <1>15, <3>1
      <4> QED
        BY <1>2, <1>15, <4>1
    <3>3. ASSUME Len(toServer) = N - k + 1, toServer[N - k + 1] = Dot, Torn(N)
          PROVE  Len(toServer') = N - m + 1 /\ toServer'[N - m + 1] = Dot /\ Torn(N)'
      <4>1. N - m + 1 \in 1 .. Len(toServer) - 1 /\ N - m + 1 + 1 = N - k + 1 /\ Len(toServer') = N - m + 1
        BY <1>2, <1>12, <1>14, <2>2, <3>1, <3>3
      <4>2. toServer'[N - m + 1] = Dot
        BY <1>2, <3>3, <4>1
      <4>3. Torn(N)'
        BY <1>1, <1>14, <3>3 DEF Torn
      <4> QED
        BY <4>1, <4>2, <4>3
    <3>4. Len(toServer) = N - k => Len(toServer') = N - m
      BY <1>2, <1>12, <1>14
    <3> HIDE DEF m
    <3>5. Remains(toServer, m, N)'
      BY <1>14, <1>15, <3>2, <3>3, <3>4 DEF Remains
    <3> QED
      BY <3>5 DEF m
  <2>6. Arriving(N)'
    BY <1>1, <1>14, <1>15, <2>2, <2>3, <2>5 DEF Arriving
  <2>7. InText'
    BY <1>11, <1>14, <2>6 DEF InText
  <2>8. ServerInv'
    BY <1>1, <1>8, <2>1, <2>4, <2>7 DEF ServerInv, Commands
  <2> QED
    BY <1>1, <1>7, <1>10, <2>8
<1>17. CASE dot(line, 0)
  <2>1. line = Dot /\ st' = "DELIVER" /\ mailbody' = mailbody
    BY <1>2, <1>17, LineIs DEF dot, Dot
  <2>2. toServer' \in Seq(TextLines)
    <3>1. \A i \in 1 .. Len(toServer) : toServer[i] \in TextLines
      <4> TAKE i \in 1 .. Len(toServer)
      <4>1. CASE i \in 1 .. N - k
        <5>1. k + i \in 1 .. T + 1
          BY <1>12, <1>13, <1>14, <1>15, <4>1
        <5> QED
          BY <1>14, <1>15, <4>1, <5>1
      <4>2. CASE i \notin 1 .. N - k
        <5>1. toServer[i] = Dot
          BY <1>2, <1>12, <1>14, <1>15, <4>2
        <5> QED
          BY <5>1 DEF TextLines, Dot
      <4> QED
        BY <4>1, <4>2
    <3>2. \A i \in 1 .. Len(toServer') : toServer'[i] \in TextLines
      <4> TAKE i \in 1 .. Len(toServer')
      <4>1. i \in 1 .. Len(toServer) - 1 /\ i + 1 \in 1 .. Len(toServer)
        BY <1>2
      <4> QED
        BY <1>2, <3>1, <4>1
    <3> QED
      BY <1>2, <3>2, IsASeq
  <2>3. Text(message) \in Seq(AnyLine) /\ mailbody \in Seq(AnyLine)
    <3>1. Text(message) \in Seq(TextLines)
      BY <1>1, TextIs
    <3> QED
      BY <1>14, <3>1 DEF SmtpInv
  <2>4. EndsWell(mailbody)
    <3>1. CASE k < N
      <4>1. 1 \in 1 .. N - k
        BY <1>12, <1>14, <3>1
      <4>2. Said[k + 1] = Dot
        BY <1>15, <2>1, <4>1 DEF line
      <4>3. k < T => Text(message)[k + 1] = Dot
        BY <1>12, <1>13, <1>14, <4>2
      <4> QED
        BY <1>1, <1>12, <1>13, <2>3, <4>3, CutThere DEF EndsWell
    <3>2. CASE ~ (k < N)
      <4>1. N = k
        BY <1>12, <1>14, <1>15, <3>2
      <4>2. Torn(k)
        BY <1>2, <1>14, <1>15, <4>1
      <4>3. CASE k < T
        <5>1. k + 1 \in 1 .. T
          BY <1>12, <1>13, <4>3
        <5> QED
          BY <1>1, <1>12, <1>14, <4>2, <5>1 DEF EndsWell, Torn
      <4>4. CASE ~ (k < T)
        BY <1>1, <1>12, <1>13, <2>3, <4>4, CutThere DEF EndsWell
      <4> QED
        BY <4>3, <4>4
    <3> QED
      BY <3>1, <3>2
  <2>5. EndsWell(mailbody)'
    BY <1>1, <2>1, <2>4, EndsWellStays
  <2>6. ServerInv'
    BY <1>1, <1>8, <2>1, <2>2, <2>5 DEF ServerInv, Commands
  <2> QED
    BY <1>1, <1>7, <1>10, <2>6
<1> QED
  BY <1>5, <1>16, <1>17

\* What is left behind the mail.
LEMMA LeftTaken ==
    ASSUME MailInv, TakesLine, arrived # <<>>
    PROVE  MailInv'
<1> USE DEF MailInv
<1> DEFINE line == toServer[1]
<1>1. /\ ArrivedInv /\ secrets = 0 /\ SmtpInv' /\ st = "WAITMAILFROM"
      /\ UNCHANGED <<arrived, step, message, nrcpt, conn, result>>
  BY LineTaken DEF TakesLine, MailTypes, ArrivedInv, Commands
<1>2. /\ toServer' \in Seq(AnyLine) /\ toServer' \in Seq(TextLines \union {Quit}) /\ line \in TextLines \union {Quit}
  <2>1. toServer \in Seq(TextLines \union {Quit}) /\ toServer # <<>> /\ toServer' = Tail(toServer)
    BY <1>1 DEF ArrivedInv, TakesLine
  <2>2. Head(toServer) \in TextLines \union {Quit} /\ toServer' \in Seq(TextLines \union {Quit})
    BY <2>1, HeadTailProperties
  <2> QED
    BY <2>2, LineTaken
<1>3. PICK code \in Replies(line) : Take(line, code) /\ Respond(code)
  BY LineTaken DEF TakesLine
<1>4. code \in Nat
  BY DEF Replies
<1>5. line[1] \in {"other", "", ".", "..", "quit"}
  BY <1>2, WordIs DEF TextLines, HeadLines, Quit
<1> HIDE DEF line
<1>6. st' \in {"ACCEPT", "WAITMAILFROM"} /\ secrets' = 0
  <2>1. Credentials(line) = 3
    BY <1>5 DEF Credentials
  <2>2. ~ auth(line, code) /\ ~ secret(line, code) /\ ~ bodyLine(line, code) /\ ~ dot(line, code)
    BY <1>1, <2>1 DEF auth, IsAuth, secret, bodyLine, dot
  <2>3. ~ helo(line, code) /\ ~ mailFrom(line, code) /\ ~ rcptTo(line, code) /\ ~ data(line, code)
    <3>1. line[1] \notin {"helo", "mail", "rcpt", "data"}
      BY ONLY <1>5
    <3>2. (helo(line, code) => line[1] = "helo") /\ (mailFrom(line, code) => line[1] = "mail")
      BY ONLY DEF helo, mailFrom, Command
    <3>3. (rcptTo(line, code) => line[1] = "rcpt") /\ (data(line, code) => line[1] = "data")
      BY ONLY DEF rcptTo, data, Command
    <3> QED
      BY ONLY <3>1, <3>2, <3>3
  <2>4. unknown(line, code) \/ empty(line, code) => st' = st /\ secrets' = secrets
    BY DEF unknown, empty, smtpVars
  <2>5. quit(code) => st' = "ACCEPT" /\ secrets' = 0
    BY DEF quit, Hungup
  <2> QED
    BY <1>1, <1>3, <2>2, <2>3, <2>4, <2>5 DEF Take
<1>7. /\ toClient \in Seq(Nat) /\ toClient' \in Seq(Nat)
      /\ toClient' = IF code # 0 /\ conn = "open" THEN Append(toClient, code) ELSE toClient
  BY <1>3, <1>4 DEF MailTypes, Respond
<1>8. MailTypes' /\ Between'
  BY <1>1, <1>2, <1>6, <1>7 DEF MailTypes, Between
<1>9. step = "dot" => IF toClient' = <<>> THEN conn = "broken" ELSE toClient'[1] = arrived[1].code
  <2> SUFFICES ASSUME step = "dot" PROVE IF toClient' = <<>> THEN conn = "broken" ELSE toClient'[1] = arrived[1].code
    OBVIOUS
  <2>1. CASE toClient = <<>>
    <3>1. conn = "broken"
      BY <1>1, <2>1 DEF ArrivedInv
    <3> QED
      BY <1>7, <2>1, <3>1
  <2>2. CASE toClient # <<>>
    <3>1. toClient[1] = arrived[1].code
      BY <1>1, <2>2 DEF ArrivedInv
    <3>2. Len(toClient) \in Nat \ {0}
      BY <1>7, <2>2, EmptySeq
    <3>3. Append(toClient, code) # <<>> /\ Append(toClient, code)[1] = toClient[1]
      BY <1>4, <1>7, <3>2, AppendProperties
    <3> QED
      BY <1>7, <2>2, <3>1, <3>3
  <2> QED
    BY <2>1, <2>2
<1>10. EndsWell(arrived[1].text)'
  BY <1>1, EndsWellStays DEF ArrivedInv
<1>11. ArrivedInv'
  BY <1>1, <1>2, <1>6, <1>9, <1>10 DEF ArrivedInv, Agreed
<1> QED
  BY <1>1, <1>8, <1>11

LEMMA ServedInv == ASSUME MailInv, Served PROVE MailInv'
<1>0. UNCHANGED <<step, message, nrcpt, conn, result>>
  BY DEF Served
<1>1. CASE conn = "open" /\ step = "banner" /\ toClient = <<>> /\ connect /\ Respond(220) /\ UNCHANGED <<toServer, arrived>>
  BY <1>0, <1>1, ServedConnects
<1>2. CASE TakesLine
  <2>1. st \in Commands \union {"DATA"}
    BY <1>2, LineTaken
  <2> QED
    BY <1>2, <2>1, CommandTaken, TextTaken, LeftTaken
<1>3. ASSUME NEW code \in {250, 550}, delivered(code), Respond(code), UNCHANGED toServer,
             arrived' = Append(arrived, [from |-> env["from"], rcpts |-> env["rcpt"], text |-> mailbody,
                                         user |-> Has(env, "user"), code |-> code])
      PROVE  MailInv'
  BY <1>0, <1>3, ServedDelivers
<1>4. CASE conn # "open" /\ lost /\ toServer' = <<>> /\ UNCHANGED <<toClient, arrived>>
  BY <1>0, <1>4, ServedLost
<1>5. CASE /\ toServer # <<>> /\ toServer' = Tail(toServer) /\ UNCHANGED arrived
           /\ \E code \in Replies(Head(toServer)) : Take(Head(toServer), code) /\ Respond(code)
  BY <1>0, <1>2, <1>5 DEF TakesLine
<1> QED
  BY <1>1, <1>3, <1>4, <1>5 DEF Served, serve

LEMMA MailInitInv == SmtpInit /\ MailInit => MailInv
<1> SUFFICES ASSUME SmtpInit, MailInit PROVE MailInv
  OBVIOUS
<1>1. SmtpInv
  BY SmtpInitInv
<1>2. st = "ACCEPT" /\ secrets = 0 /\ ~ client.user
  BY DEF SmtpInit, NewClient
<1>3. message \in Messages /\ message.rcpts \in Seq(Written)
  BY MessagesAssumption DEF MailInit
<1>4. MailTypes
  <2>1. <<>> \in Seq(AnyLine)
    OBVIOUS
  <2>2. <<>> \in Seq(Nat)
    OBVIOUS
  <2>3. Len(message.rcpts) \in Nat
    BY <1>3
  <2> QED
    BY <1>2, <1>3, <2>1, <2>2, <2>3 DEF MailTypes, MailInit, Steps
<1>5. Between /\ arrived = <<>>
  BY DEF Between, MailInit
<1>6. ServerInv /\ ClientInv
  BY <1>2 DEF ServerInv, ClientInv, MailInit, Commands, HasFrom, HasRcpt
<1> QED
  BY <1>1, <1>4, <1>5, <1>6 DEF MailInv

LEMMA MailStepInv == MailInv /\ [MailNext]_<<smtpVars, mailVars>> => MailInv'
<1> SUFFICES ASSUME MailInv, [MailNext]_<<smtpVars, mailVars>> PROVE MailInv'
  OBVIOUS
<1>1. CASE UNCHANGED <<smtpVars, mailVars>>
  <2>1. UNCHANGED smtpVars /\ UNCHANGED <<step, message, nrcpt, toServer, toClient, conn, result, arrived>>
    BY <1>1 DEF mailVars
  <2>2. SmtpInv' /\ MailTypes' /\ Between'
    BY <2>1, SessionStays DEF MailInv, MailTypes, Between, smtpVars
  <2>3. ASSUME arrived = <<>> PROVE ServerInv' /\ ClientInv'
    <3>1. ServerInv /\ ClientInv
      BY <2>3 DEF MailInv
    <3>2. (st \in Commands => toServer = <<>> \/ \E line \in AnyLine : toServer = <<line>> /\ CanTake(line))'
      BY <2>1, <3>1, CanTakeStays DEF ServerInv, smtpVars
    <3>3. (st = "DATA" => Begins(mailbody, Text(message)) /\ NoDots(mailbody) /\ (AtData \/ InText))'
      BY <2>1, <3>1, InTextStays DEF ServerInv, AtData, smtpVars
    <3>4. (st = "DELIVER" => EndsWell(mailbody) /\ toServer \in Seq(TextLines))'
      BY <2>1, <3>1, EndsWellStays DEF ServerInv, smtpVars
    <3>5. ServerInv'
      BY <2>1, <3>1, <3>2, <3>3, <3>4 DEF ServerInv, SoFar, smtpVars
    <3>6. ClientInv'
      <4>1. Asking => Asking'
        BY <2>1 DEF Asking, Verb, smtpVars
      <4>2. Answered => Answered'
        BY <2>1 DEF Answered, Replied, smtpVars
      <4> QED
        BY <2>1, <3>1, <4>1, <4>2 DEF ClientInv, smtpVars
    <3> QED
      BY <3>5, <3>6
  <2>4. ASSUME arrived # <<>> PROVE ArrivedInv'
    <3>1. ArrivedInv
      BY <2>4 DEF MailInv
    <3>2. EndsWell(arrived[1].text)'
      BY <2>1, <3>1, EndsWellStays DEF ArrivedInv
    <3> QED
      BY <2>1, <3>1, <3>2 DEF ArrivedInv, Agreed, smtpVars
  <2> QED
    BY <2>1, <2>2, <2>3, <2>4 DEF MailInv
<1> QED
  BY <1>1, DialInv, HearInv, ThrowsInv, BreaksInv, ServedInv DEF MailNext

LEMMA MailInvMeans == MailInv => MailsKept
<1> SUFFICES ASSUME MailInv PROVE MailsKept
  OBVIOUS
<1> USE DEF MailInv
<1>1. MailAsAgreed /\ InStep
  BY SmtpInvMeans
<1>2. CASE arrived = <<>>
  <2>1. result # "sent" /\ Len(arrived) = 0 /\ DOMAIN arrived = {}
    BY <1>2 DEF ClientInv
  <2>2. MailArrives
    BY <2>1 DEF MailArrives
  <2> QED
    BY <1>1, <2>2 DEF MailsKept
<1>3. CASE arrived # <<>>
  <2>1. ArrivedInv /\ message \in Messages
    BY <1>3 DEF MailTypes
  <2>2. PICK mail : mail = arrived[1] /\ arrived = <<mail>> /\ Len(arrived) = 1 /\ DOMAIN arrived = {1}
    BY <2>1 DEF ArrivedInv
  <2>3. mail.code \in {250, 550} /\ Agreed(mail) /\ EndsWell(mail.text) /\ IsText(mail.text)
    BY <2>1, <2>2 DEF ArrivedInv
  <2>4. (result = "sent" => mail.code = 250) /\ (result = "failed" /\ conn # "broken" => mail.code = 550)
    BY <2>1, <2>2 DEF ArrivedInv
  <2>5. \/ mail.text = UpToDot(Text(message))
        \/ /\ conn = "broken" /\ IsPrefix(mail.text, Text(message))
           /\ Starts(Text(message)[Len(mail.text) + 1])
    <3>1. Text(message) \in Seq(TextLines)
      BY <2>1, TextIs
    <3>2. Text(message) \in Seq(AnyLine)
      <4>1. TextLines \subseteq AnyLine
        BY DEF TextLines, HeadLines, AnyLine, Lines
      <4> QED
        BY <3>1, <4>1
    <3>3. Begins(mail.text, Text(message)) => IsPrefix(mail.text, Text(message))
      BY <2>3, <3>2, BeginsPrefix DEF IsText
    <3> QED
      BY <2>3, <3>3 DEF EndsWell
  <2>6. Covered(message.body) /\ conn # "broken" =>
           mail.text = message.head \o [k \in DOMAIN message.body |->
                                          IF message.body[k] = Dot THEN Word("..") ELSE message.body[k]]
    BY <2>1, <2>5, CoveredText
  <2>7. MailArrives
    <3> DEFINE Ends1(m) ==
            /\ Agreed(m)
            /\ \/ m.text = UpToDot(Text(message))
               \/ /\ conn = "broken" /\ IsPrefix(m.text, Text(message))
                  /\ Starts(Text(message)[Len(m.text) + 1])
            /\ Covered(message.body) /\ conn # "broken" =>
                 m.text = message.head \o [k \in DOMAIN message.body |->
                                             IF message.body[k] = Dot THEN Word("..") ELSE message.body[k]]
    <3>1. Ends1(mail)
      BY <2>3, <2>5, <2>6
    <3> HIDE DEF Ends1
    <3>2. \A i \in DOMAIN arrived : arrived[i] = mail /\ Ends1(arrived[i])
      BY <2>2, <3>1
    <3>3. arrived[1].code = mail.code /\ \A i \in DOMAIN arrived : arrived[i].code = mail.code
      BY <2>2, <3>2
    <3>4. result = "sent" => Len(arrived) = 1 /\ arrived[1].code = 250
      BY <2>2, <2>4, <3>3
    <3>5. result = "failed" /\ conn # "broken" => \A i \in DOMAIN arrived : arrived[i].code = 550
      BY <2>4, <3>3
    <3>6. Len(arrived) <= 1
      BY <2>2
    <3>7. \A i \in DOMAIN arrived : Ends1(arrived[i])
      BY <3>2
    <3> QED
      BY <3>4, <3>5, <3>6, <3>7, Zenon DEF MailArrives, Ends1
  <2> QED
    BY <1>1, <2>7 DEF MailsKept
<1> QED
  BY <1>2, <1>3

\* What true stands for while the connection has not broken: one delivery of the mail to
\* all of its recipients, with its text up to the first dot the escape has missed, which
\* is all of it when there is none.
SentMeans ==
    result = "sent" /\ conn # "broken" =>
        /\ Len(arrived) = 1 /\ arrived[1].code = 250 /\ Agreed(arrived[1])
        /\ arrived[1].text = UpToDot(Text(message))
        /\ Covered(message.body) =>
             arrived[1].text = message.head \o [k \in DOMAIN message.body |->
                                   IF message.body[k] = Dot THEN Word("..") ELSE message.body[k]]

\* Whatever mails a process sends over however many connections, as long as none of their
\* header lines is a dot and none of their text lines reads as a command: dosmtp has returned
\* true only when the mail was delivered, once and to all of its recipients, and false only
\* when it was not or the connection broke. A mail with a dot that the escape misses counts as
\* delivered with its text cut there; only one without such a dot, over a connection that
\* did not break, is delivered as it was asked for (smtpsocket::dosmtp, smtpworker::run).
THEOREM MailsAreKept == MailSpec => [](MailsKept /\ SentMeans)
<1>1. MailSpec => []MailInv
  BY MailInitInv, MailStepInv, PTL DEF MailSpec
<1>2. MailInv => SentMeans
  <2> SUFFICES ASSUME MailInv, result = "sent", conn # "broken" PROVE SentMeans
    BY DEF SentMeans
  <2>1. MailArrives
    BY MailInvMeans DEF MailsKept
  <2>2. Len(arrived) = 1 /\ arrived[1].code = 250
    BY <2>1 DEF MailArrives
  <2>3. arrived = <<arrived[1]>>
    <3>1. arrived # <<>>
      BY <2>2
    <3> QED
      BY <3>1 DEF MailInv, ArrivedInv
  <2>4. 1 \in DOMAIN arrived
    BY ONLY <2>3
  <2> QED
    BY ONLY <2>1, <2>2, <2>4, result = "sent", conn # "broken", Zenon DEF MailArrives, SentMeans
<1> QED
  BY <1>1, <1>2, MailInvMeans, PTL
=============================================================================
