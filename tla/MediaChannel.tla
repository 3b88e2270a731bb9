---------------------------- MODULE MediaChannel ----------------------------
(***************************************************************************)
(* The media channel's server (src/src/emu/MediaServer.cpp): one client at *)
(* a time, which must open with the session's token before it is answered  *)
(* or heard, and the parser that cuts its bytes, in whatever pieces they   *)
(* arrive, into frames and sound.                                          *)
(*                                                                         *)
(* A byte stream is a sequence of symbols: "F", "R" is a frame's magic,    *)
(* "A" opens a sound message, a digit is the length in either's header and *)
(* counts the symbols that follow. AUTH is two symbols.                    *)
(* Left out: the 64 MiB limit on the backlog, and what the port is.        *)
(***************************************************************************)
EXTENDS Naturals, Sequences, FiniteSets, SequencesExt

CONSTANTS Streams,     \* what the emulator may send: sequences of messages
          MaxSessions, MaxConnections, None

VARIABLES server, \* listening, token, client, authed, timer, buffer
          wire,   \* what the client sent that has not been read
          fork,   \* the emulator: the token it was given, what it has still to send, greeted
          sent,   \* the messages it has begun to send since it was greeted
          heard,  \* what the server emitted from this client
          dialled \* connections made, for the bound

vars == <<server, wire, fork, sent, heard, dialled>>

Closed == [listening |-> FALSE, token |-> 0, client |-> None, authed |-> FALSE,
           timer |-> FALSE, buffer |-> <<>>]

NoFork == [token |-> 0, stream |-> <<>>, greeted |-> FALSE]

\* The symbols that stand for numbers.
Digits == <<"1", "2", "3">>

Auth(token) == <<"auth", Digits[token]>>

Frame(payload) == <<"F", "R", Digits[Len(payload)]>> \o payload

Sound(payload) == <<"A", Digits[Len(payload)]>> \o payload

Init ==
  /\ server = Closed /\ wire = <<>> /\ fork = NoFork /\ sent = <<>> /\ heard = <<>> /\ dialled = 0

---------------------------------------------------------------------------
(* MediaServer::parseBuffer: as much of the buffer as is whole.            *)

From(s, i) == SubSeq(s, i, Len(s))

\* Garbage that looked like a header: step past its first byte.
SteppedPast(p) == [p EXCEPT !.buffer = Tail(@)]

Plausible(symbol) == \E n \in DOMAIN Digits : Digits[n] = symbol

Count(symbol) == CHOOSE n \in DOMAIN Digits : Digits[n] = symbol

\* Emit what the first n symbols carry.
Emitted(p, kind, n, header) ==
  [buffer |-> From(p.buffer, n + 1),
   heard |-> Append(p.heard, <<kind, SubSeq(p.buffer, header + 1, n)>>)]

Magics(b) == {i \in 1..Len(b) - 1 : b[i] = "F" /\ b[i + 1] = "R"}

RECURSIVE ParseBuffer(_)
ParseBuffer(p) ==
  LET b == p.buffer
      first == CHOOSE i \in Magics(b) : \A j \in Magics(b) : i <= j
      at == From(b, first)
  IN IF Len(b) < 2 THEN p
     ELSE IF b[1] = "A"
     THEN IF ~Plausible(b[2]) THEN ParseBuffer(SteppedPast(p))
          ELSE IF Len(b) < 2 + Count(b[2]) THEN p
          ELSE ParseBuffer(Emitted(p, "sound", 2 + Count(b[2]), 2))
     \* half a magic may be the other half's
     ELSE IF Magics(b) = {} THEN [p EXCEPT !.buffer = From(b, Len(b))]
     ELSE IF Len(at) < 3 THEN [p EXCEPT !.buffer = at]
     ELSE IF ~Plausible(at[3]) THEN ParseBuffer(SteppedPast([p EXCEPT !.buffer = at]))
     ELSE IF Len(at) < 3 + Count(at[3]) THEN [p EXCEPT !.buffer = at]
     ELSE ParseBuffer(Emitted([p EXCEPT !.buffer = at], "frame", 3 + Count(at[3]), 3))

---------------------------------------------------------------------------
(* The server.                                                             *)

\* Mutant: what the old client left in the buffer stays.
DropClient_KeepsBuffer(v) == [v EXCEPT !.authed = FALSE, !.timer = FALSE, !.client = None]

\* Mutant: the next client inherits the last one's AUTH.
DropClient_KeepsAuth(v) == [v EXCEPT !.buffer = <<>>, !.timer = FALSE, !.client = None]

DropClient(v) == [v EXCEPT !.buffer = <<>>, !.authed = FALSE, !.timer = FALSE, !.client = None]

\* Mutant: the new client's wait begins before the old one is dropped.
OnNewConnection_TimesFirst(v, who) == [DropClient([v EXCEPT !.timer = TRUE]) EXCEPT !.client = who]

OnNewConnection(v, who) == [DropClient(v) EXCEPT !.client = who, !.timer = TRUE]

Close(v) == [DropClient(v) EXCEPT !.listening = FALSE, !.token = 0]

\* A launch: the listener and a new token, then the emulator with that token.
\* The launch before it may still be running.
Launch(stream) ==
  /\ server.token < MaxSessions /\ fork.token < MaxSessions
  /\ LET token == (IF server.token > fork.token THEN server.token ELSE fork.token) + 1
     IN /\ server' = [Close(server) EXCEPT !.listening = TRUE, !.token = token]
        /\ fork' = [token |-> token, stream |-> stream, greeted |-> FALSE]
  /\ wire' = <<>> /\ sent' = <<>> /\ heard' = <<>> /\ UNCHANGED dialled

\* A session without the channel: a listener from before is closed.
LaunchWithoutMedia ==
  /\ server.listening /\ server' = Close(server) /\ wire' = <<>> /\ heard' = <<>>
  /\ fork' = [fork EXCEPT !.stream = <<>>, !.greeted = FALSE] /\ UNCHANGED <<sent, dialled>>

\* A connection: the emulator's (again, once its old one is gone), or another program's.
Connects(who) ==
  /\ server.listening /\ dialled < MaxConnections /\ dialled' = dialled + 1
  /\ who = "fork" => fork.token = server.token
  /\ server' = OnNewConnection(server, who)
  /\ wire' \in (IF who = "fork" THEN {Auth(fork.token)} ELSE {<<>>, <<"auth", "0">>, Frame(<<"z">>)})
  /\ sent' = <<>> /\ heard' = <<>> /\ fork' = [fork EXCEPT !.greeted = FALSE]

\* The emulator sends its next message once it has had HELLO.
ForkSends ==
  /\ server.client = "fork" /\ fork.greeted /\ fork.stream # <<>>
  /\ wire' = wire \o Head(fork.stream) /\ sent' = Append(sent, Head(fork.stream))
  /\ fork' = [fork EXCEPT !.stream = Tail(@)]
  /\ UNCHANGED <<server, heard, dialled>>

\* MediaServer::onReadyRead, with whatever has arrived.
Reads(count) ==
  /\ server.client # None /\ wire # <<>>
  /\ LET had == [server EXCEPT !.buffer = @ \o SubSeq(wire, 1, count)]
         valid == SubSeq(had.buffer, 1, 2) = Auth(had.token)
         greeted == [had EXCEPT !.authed = TRUE, !.timer = FALSE, !.buffer = From(@, 3)]
         Parsed(v) == ParseBuffer([buffer |-> v.buffer, heard |-> heard])
     IN CASE ~had.authed /\ Len(had.buffer) < 2 ->
               /\ server' = had /\ wire' = From(wire, count + 1) /\ UNCHANGED <<heard, fork>>
          [] ~had.authed /\ Len(had.buffer) >= 2 /\ ~valid ->
               /\ server' = DropClient(had) /\ wire' = <<>> /\ UNCHANGED <<heard, fork>>
          [] ~had.authed /\ valid ->
               /\ server' = [greeted EXCEPT !.buffer = Parsed(greeted).buffer]
               /\ heard' = Parsed(greeted).heard /\ wire' = From(wire, count + 1)
               /\ fork' = [fork EXCEPT !.greeted = server.client = "fork"]
          [] had.authed ->
               /\ server' = [had EXCEPT !.buffer = Parsed(had).buffer]
               /\ heard' = Parsed(had).heard /\ wire' = From(wire, count + 1) /\ UNCHANGED fork
  /\ UNCHANGED <<sent, dialled>>

Disconnects ==
  /\ server.client # None /\ wire = <<>>
  /\ server' = DropClient(server) /\ fork' = [fork EXCEPT !.greeted = FALSE]
  /\ sent' = <<>> /\ heard' = <<>> /\ UNCHANGED <<wire, dialled>>

\* MediaServer::resetClient: the session is over, or the next one starts.
ResetClient ==
  /\ server.client # None /\ server' = DropClient(server)
  /\ wire' = <<>> /\ heard' = <<>> /\ sent' = <<>>
  /\ fork' = [fork EXCEPT !.greeted = FALSE] /\ UNCHANGED dialled

AuthTimeout ==
  /\ server.timer /\ server.client # None /\ ~server.authed
  /\ server' = DropClient(server) /\ wire' = <<>>
  /\ UNCHANGED <<fork, sent, heard, dialled>>

Next ==
  \/ \E stream \in Streams : Launch(stream)
  \/ \E who \in {"fork", "stranger"} : Connects(who)
  \/ \E count \in 1..Len(wire) : Reads(count)
  \/ LaunchWithoutMedia \/ ForkSends \/ Disconnects \/ ResetClient \/ AuthTimeout

Spec == Init /\ [][Next]_vars

---------------------------------------------------------------------------
(* Properties.                                                             *)

\* A message as it would be emitted; garbage would not.
Meaning(message) ==
  IF Len(message) > 3 /\ message[1] = "F" /\ message = Frame(From(message, 4)) THEN <<"frame", From(message, 4)>>
  ELSE IF Len(message) > 2 /\ message[1] = "A" /\ message = Sound(From(message, 3)) THEN <<"sound", From(message, 3)>>
  ELSE None

Meant == SelectSeq([i \in DOMAIN sent |-> Meaning(sent[i])], LAMBDA m : m # None)

\* However the bytes were cut up, and whatever garbage lay between: what is
\* emitted is what the emulator sent, whole and in order, and once everything
\* is read nothing is missing. "A partial is never emitted", "a valid frame
\* that follows is not skipped".
StreamIsHeardWhole ==
  /\ IsPrefix(heard, Meant)
  /\ server.client = "fork" /\ server.authed /\ wire = <<>> => heard = Meant

\* Only the emulator of this session is answered or heard: a client counts as
\* authenticated when it opened with this session's token, whoever was
\* connected before it.
OnlyTheForkIsHeard ==
  server.authed \/ heard # <<>> => server.client \in {"fork", None} /\ (server.authed => server.client = "fork")

\* A client that has not said who it is does not hold the one place for ever.
AuthIsAwaited == server.client # None /\ ~server.authed => server.timer
=============================================================================
