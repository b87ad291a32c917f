------------------------------ MODULE MCPools ------------------------------
(***************************************************************************)
(* The two servers that have a WorkerPool, and the list of sessions that   *)
(* the workers of a server share, for TLC. A behaviour is one of part; the *)
(* main thread of a server that takes none stands before its first step.   *)
(***************************************************************************)
EXTENDS Httpd, Smtpd, SessionList

VARIABLE part

httpdOnly == <<mpc, main, asked, raised, spc>>
smtpdOnly == <<smtpdAt, smtpdMain, _shutdown, caller>>

PoolsInit == part \in {"httpd", "smtpd", "session"} /\ Init /\ SmtpdInit /\ SessionInit

PoolsNext ==
    /\ UNCHANGED part
    /\ \/ part = "httpd" /\ Next /\ UNCHANGED <<smtpdOnly, sessionVars>>
       \/ part = "smtpd" /\ SmtpdNext /\ UNCHANGED <<httpdOnly, sessionVars>>
       \/ part = "session" /\ SessionNext /\ UNCHANGED <<vars, smtpdOnly>>

\* Fairness and SmtpdFairness, of the server that takes part.
PoolsFairness ==
    /\ WF_vars(part = "httpd" /\ Main) /\ WF_vars(part = "httpd" /\ shutdownDone)
    /\ WF_smtpdVars(part = "smtpd" /\ SmtpdMain) /\ WF_smtpdVars(part = "smtpd" /\ smtpdIdle)
    /\ WF_smtpdVars(part = "smtpd" /\ smtpdShutdownDone)
    /\ \A w \in Workers : WF_pool(Work(w))

PoolsSpec == PoolsInit /\ [][PoolsNext]_<<part, vars, smtpdOnly, sessionVars>> /\ PoolsFairness

\* The variables of the servers and of the sessions keep their types.
PoolsTypeOK == TypeOK /\ SmtpdTypeOK /\ SessionTypeOK

\* The pool of smtpd keeps its minimum, and shutdown leaves no worker behind:
\* SmtpdKeepsMinimum and SmtpdShutdownComplete.
SmtpdPoolKept == SmtpdKeepsMinimum /\ SmtpdShutdownComplete

\* Once the connections stop coming, a call of shutdown returns, of the httpd
\* and of the smtpd: ShutdownReturns and SmtpdShutdownReturns.
PoolsReturn == ShutdownReturns /\ SmtpdShutdownReturns
=============================================================================
