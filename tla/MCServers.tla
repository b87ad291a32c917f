----------------------------- MODULE MCServers -----------------------------
(***************************************************************************)
(* What servers consist of beside their pools, for TLC: the string         *)
(* database, the descriptors of their sockets, the reading of files and of *)
(* chunked bodies, a threadgroup, an SMTP session, by itself and with the  *)
(* client of the library, an HTTP session, the editor of their command     *)
(* lines and their configuration. A behaviour is one of part; the others   *)
(* stand still in an initial state.                                        *)
(***************************************************************************)
EXTENDS ConfigDb, Terminal, Sockets, StringRefDb, ChunkedBody, ThreadGroup, SmtpClient,
        HttpSession, TLC

CONSTANT Parts   \* the parts a run is about

VARIABLE part

(* Two names of five have one key, as names that differ in case do. *)
MCNames == {"root", "a", "A", "b", "c", "d"}
MCKey == [n \in MCNames |-> CASE n = "b" -> 1 [] n \in {"a", "A"} -> 2
                              [] n = "c" -> 3 [] n = "root" -> 4 [] n = "d" -> 5]
MCLen == [n \in MCNames |-> CASE n = "root" -> 0 [] n = "b" -> 2 [] OTHER -> 1]

(* Lines with every kind of end, one that does not fit the buffer, and one that gets does not fit. *)
MCLines == {<<"x", "cr", "lf", "lf", "x", "x", "lf", "x">>,
          <<"cr", "x", "lf", "x", "x", "cr", "cr", "lf", "x", "lf">>,
          <<"x", "x", "x", "x", "x", "x", "x", "lf", "x", "lf">>, <<"x", "x", "x", "x", "x", "lf">>}

MCCalls == {Call("gets", 4, FALSE), Call("waitforline", 2, TRUE), Call("read", 3, FALSE),
            Call("timedread", 2, TRUE), Call("readbuffer", 5, TRUE),
            Call("readbuffer", 2, FALSE), Call("readuntil", 99, TRUE)}
MCWatch == <<"lf", "x">>

(* Two chunks, the first of them larger than the buffer; a chunk past the limit; none behind
   the first. *)
CRLF == <<"cr", "lf">>
Chunk(size, bytes) == <<size>> \o CRLF \o bytes \o CRLF
Large == <<"x", "y", "y", "x", "x", "x", "y">>
TwoChunks == Chunk("7", Large) \o Chunk("1", <<"x">>) \o <<"0">> \o CRLF
PastLimit == Chunk("1", <<"x">>) \o Chunk("9", <<"y">>)
HangsUp == Chunk("1", <<"y">>)
MCResponses == {TwoChunks, PastLimit, HangsUp}
MCChunksOf == (TwoChunks :> (0 :> 0 @@ 12 :> 7 @@ 18 :> 8)) @@ (PastLimit :> (0 :> 0 @@ 6 :> 1))
              @@ (HangsUp :> (0 :> 0 @@ 6 :> 1))
MCSizeOf == ("0" :> 0) @@ ("1" :> 1) @@ ("7" :> 7) @@ ("9" :> 9)
MCContents == {<<"x", "lf">>} \union MCLines \union MCResponses
MCBodyOf == (TwoChunks :> Large \o <<"x">>) @@ (PastLimit :> <<"x", "y">>)
            @@ (HangsUp :> <<"y">>)
            @@ [c \in MCContents |-> <<>>]

(* Two ways to write one address, and another address. *)
MCNormal == ("<a>" :> "a") @@ ("a" :> "a") @@ ("b" :> "b")

(* Dots of every kind in a body, headers and none. *)
Text1 == Word("other")
MCMessages == { [from |-> "<a>", rcpts |-> r, user |-> u, head |-> h, body |-> b] :
    r \in {<<"b">>, <<"a", "<a>">>}, u \in BOOLEAN, h \in {<<>>, <<Text1, Word("")>>},
    b \in {<<>>, <<Text1, Text1>>, <<Text1, Dot, Text1, Dot, Word("")>>, <<Text1, Dot, Dot, Text1>>,
           <<Dot, Text1>>, <<Text1, Dot>>, <<Text1, Word(".."), Text1>>} }

Req(m, u, v, h, b) == [method |-> m, uri |-> u, version |-> v, headers |-> h, body |-> b]
Body(n) == [i \in 1 .. n |-> <<"body", i>>]
Size(n) == "Content-length" :> n
Conn(c) == "Connection" :> c
Good == "Authorization" :> "good"

(* Bodies and none, refusals of each kind, every version and every wish. *)
Anyone == <<Req("GET", "/none", "1.1", Size(0), <<>>), Req("GET", "/out", "1.1", <<>>, <<>>)>>
MCConversations == { Anyone,
  <<Req("POST", "/in", "1.1", Size(2) @@ Good, Body(2)), Req("GET", "/in", "1.1", <<>>, <<>>),
    Req("GET", "/out", "1.0", <<>>, <<>>)>>,
  <<Req("PUT", "/out", "1.0", Size(1) @@ Conn("keep-alive"), Body(1)),
    Req("DELETE", "/own", "1.1", <<>>, <<>>), Req("TRACE", "/out", "1.1", Size(1), Body(1)),
    Req("GET", "/out", "1.1", <<>>, <<>>)>>,
  <<Req("GET", "/out", "1.1", Conn("close"), <<>>), Req("GET", "/out", "1.1", <<>>, <<>>)>>,
  <<Req("GET", "/own", "1.1", <<>>, <<>>), Req("GET", "/out", "1.1", Size(1), Body(1))>>,
  <<Req("GET", "/in", "1.1", Good, <<>>), Req("POST", "/in", "1.1", Size(4), Body(4))>> }

(* The last page is behind the authentication for /in and not for /out. *)
MCChain == << [matches |-> {"/in", "/out"}, kind |-> "rewrite"],
              [matches |-> {"/in"}, kind |-> "auth"],
              [matches |-> {"/own"}, kind |-> "direct"],
              [matches |-> {"/in", "/out", "/own"}, kind |-> "page"] >>

ASSUME MCBodiesFit == BodiesFit

(* No history, a line that does not fit the display, and a full history of one. *)
MCPrompt == <<"$">>
Long == <<"x", "x", " ", "x", "x", "x", "x">>
MCHistories == {<<>>, <<Long>>, <<Long \o <<"x">>, <<"x">>>>}

(* Objects and values at one path, a list and its entries, a value that is refused. *)
Leaf(n, d) == Item(n, d, <<>>)
MCConfigs ==
    {EmptyTree, [EmptyTree EXCEPT !.kids = <<Leaf("a", "1")>>]} \union
    {[EmptyTree EXCEPT !.kids = <<Item("a", "", <<Leaf("x", d)>>)>> \o l] :
       <<d, l>> \in {<<"1", <<Item("l", "", <<Leaf("p", "1"), Leaf("q", "1")>>)>> >>,
                    <<"2", <<Item("l", "", <<Leaf("q", "1")>>)>> >>, <<"bad", <<>> >>}}
Line(s, n, d) == [section |-> s, name |-> n, data |-> d]
MCIniTexts == { <<Line("a", "x", "2")>>, <<Line("a", "y", "1"), Line("l", "p", "bad")>>,
                <<Line("l", "p", "1"), Line("a", "y", "1")>> }
MCWatchers == << [path |-> <<"a">>, refuses |-> {}], [path |-> <<"a", "x">>, refuses |-> {"bad"}],
                 [path |-> <<"l", "*">>, refuses |-> {"bad"}] >>

ServersInit ==
    /\ part \in Parts
    /\ ConfigInit /\ (part # "config" => lastloaded = 0)
    /\ DbInit /\ GroupInit /\ SmtpInit /\ HttpInit /\ TerminalInit /\ SocketsInit /\ MailInit
    /\ part # "terminal" => entered = <<>>
    /\ part # "http" => received = 0 /\ conversation = Anyone
    /\ IF part = "chunked" THEN ChunkInit
       ELSE /\ FileInit
            /\ content \in (IF part = "file" THEN MCLines ELSE {<<"x", "lf">>})
            /\ timed = FALSE /\ pc = "ask" /\ chunksz = 0 /\ todo = 0
            /\ into = <<>> /\ done = "running"

\* What only one part has, and what the others share.
ownVars == <<configVars, terminalVars, socketVars, mailVars>>
sharedVars == <<dbVars, allVars, groupVars, smtpVars, httpVars>>

ServersNext ==
    /\ UNCHANGED part
    /\ \/ /\ part = "terminal" /\ TerminalNext
          /\ UNCHANGED <<configVars, socketVars, mailVars, sharedVars>>
       \/ /\ part = "sockets" /\ SocketsNext
          /\ UNCHANGED <<configVars, terminalVars, mailVars, sharedVars>>
       \/ /\ part = "config" /\ ConfigNext
          /\ UNCHANGED <<terminalVars, socketVars, mailVars, sharedVars>>
       \/ /\ part = "mail" /\ MailNext
          /\ UNCHANGED <<configVars, terminalVars, socketVars, dbVars, allVars, groupVars, httpVars>>
       \/ /\ part \in {"strings", "file", "chunked", "group", "smtp", "http"} /\ UNCHANGED ownVars
          /\ \/ part = "strings" /\ DbNext /\ UNCHANGED <<allVars, groupVars, smtpVars, httpVars>>
             \/ part = "file" /\ FileNext
                /\ UNCHANGED <<chunkVars, dbVars, groupVars, smtpVars, httpVars>>
             \/ part = "chunked" /\ ChunkNext /\ UNCHANGED <<dbVars, groupVars, smtpVars, httpVars>>
             \/ part = "group" /\ GroupNext /\ UNCHANGED <<dbVars, allVars, smtpVars, httpVars>>
             \/ part = "smtp" /\ SmtpNext /\ UNCHANGED <<dbVars, allVars, groupVars, httpVars>>
             \/ part = "http" /\ HttpNext /\ UNCHANGED <<dbVars, allVars, groupVars, smtpVars>>

ServersSpec == ServersInit /\ [][ServersNext]_<<part, ownVars, sharedVars>>

(* Each property below is about the part that moves: the others stand still in
   a state that a behaviour of theirs starts in. *)

\* The variables of the parts keep their types.
ServersTypeOK == CASE part = "strings" -> DbTypeOK
                   [] part = "file" -> FileTypeOK
                   [] part = "chunked" -> ChunkTypeOK
                   [] part = "group" -> GroupTypeOK
                   [] part = "smtp" -> SmtpTypeOK
                   [] part = "mail" -> MailTypeOK
                   [] part = "http" -> HttpTypeOK
                   [] part = "terminal" -> TerminalTypeOK
                   [] part = "sockets" -> SocketsTypeOK
                   [] part = "config" -> ConfigTypeOK

\* Through every reuse, cleanup and rebuilding of the tree, a name that someone
\* has is found under its key, its count is exact, and no node is lost or freed
\* twice: FoundWhileHeld, CountsExact and NothingLeaks.
NamesKept == part = "strings" => FoundWhileHeld /\ CountsExact /\ NothingLeaks

\* readline gives the line that the keys describe, and the history keeps it:
\* LineAsEdited and HistoryKept.
LineKept == LineAsEdited /\ HistoryKept

\* The editor has the line that the keys say, and the display shows it: LineKept
\* and ScreenShows.
EditorKept == part = "terminal" => LineKept /\ ScreenShows

\* Watchers are told of a new configuration what is in it, and the threads get it:
\* ToldExactly and SeenFresh.
ConfigKept == part = "config" => ToldExactly /\ SeenFresh
=============================================================================
