------------------------------ MODULE IPCChannel ------------------------------
(***************************************************************************)
(* One connection between the proxy (or the CLI) and the sidecar that      *)
(* holds the key: ipc/client.py at one end, sidecar/server.py at the       *)
(* other, ipc/framing.py between them.                                     *)
(*                                                                         *)
(* Requests of several coroutines take turns on the client's lock.  A      *)
(* coroutine may be cancelled while it waits, writes or reads, a reply may *)
(* be late, the backend may fail, a frame may be damaged, the sidecar may  *)
(* die.  What the client does not read stays in the stream: a reply is a   *)
(* header and a body, and a reader may be cancelled between the two.       *)
(*                                                                         *)
(* The first request is the hello of the handshake.  What the operations   *)
(* carry is left out; a reply is known by the request it answers.          *)
(***************************************************************************)
EXTENDS Naturals, Sequences, FiniteSets

CONSTANTS
    Call,           \* requests of one client
    Hello,          \* the handshake
    Caps,           \* requests whose operation the backend advertises
    Unknown,        \* _ID_UNKNOWN
    Silence,
    MaxCancels      \* bound: cancellations

ASSUME ChannelAssumption ==
    /\ Hello \notin Call
    /\ Caps \subseteq Call
    /\ {Unknown, Silence} \cap (Call \cup {Hello}) = {}
    /\ MaxCancels \in Nat

Ids == Call \cup {Hello, Unknown}
Parts == [id : Ids, part : {"header", "body"}, kind : {"resp", "err"}]

VARIABLES
    to_sidecar,     \* frames on their way to the sidecar
    to_client,      \* what it answered and nobody has read
    turn,           \* holder of the client's lock
    asked,          \* state of each request
    answer,         \* the request whose answer each was given
    connected,      \* the client has a reader and a writer
    sidecar_end,    \* "new", "greeted" or "closed"
    uid_allowed,    \* is the client in the allowlist?
    served,         \* operations the backend performed (history)
    timed_out,      \* a request gave up on this stream (history)
    cancels

channelVars == <<to_sidecar, to_client, turn, asked, answer, connected, sidecar_end, uid_allowed, served,
                 timed_out, cancels>>

AskedStates == {"new", "waiting", "writing", "reading", "body", "done", "failed", "cancelled"}

ChannelTypeOK ==
    /\ to_sidecar \in Seq(Ids)
    /\ to_client \in Seq(Parts)
    /\ turn \in Ids \cup {Silence}
    /\ asked \in [Call \cup {Hello} -> AskedStates]
    /\ answer \in [Call \cup {Hello} -> Ids \cup {Silence}]
    /\ connected \in BOOLEAN
    /\ sidecar_end \in {"new", "greeted", "closed"}
    /\ served \subseteq Call
    /\ timed_out \in BOOLEAN

ChannelInit ==
    /\ to_sidecar = <<>>
    /\ to_client = <<>>
    /\ turn = Silence
    /\ asked = [r \in Call \cup {Hello} |-> "new"]
    /\ answer = [r \in Call \cup {Hello} |-> Silence]
    /\ connected = TRUE
    /\ sidecar_end = "new"
    /\ uid_allowed \in BOOLEAN
    /\ served = {}
    /\ timed_out = FALSE
    /\ cancels = 0

-----------------------------------------------------------------------------
(* The client.                                                             *)

Becomes(r, from, to) == asked[r] = from /\ asked' = [asked EXCEPT ![r] = to]
Given(r, id) == answer' = [answer EXCEPT ![r] = id]

\* The lock is left by whatever ends the round trip.
EndsTurn(r) == turn' = IF turn = r THEN Silence ELSE turn

Fails(r, id) ==
    /\ asked' = [asked EXCEPT ![r] = "failed"]
    /\ Given(r, id)
    /\ EndsTurn(r)

\* Nothing is asked before the handshake, nor after it failed (aclose).
Ask(r) ==
    /\ r = Hello \/ asked[Hello] = "done"
    /\ Becomes(r, "new", "waiting")
    /\ UNCHANGED <<to_sidecar, to_client, turn, answer, connected, sidecar_end, uid_allowed, served, timed_out,
                   cancels>>

TakeTurn(r) ==
    /\ Becomes(r, "waiting", "writing")
    /\ turn = Silence
    /\ turn' = r
    /\ UNCHANGED <<to_sidecar, to_client, answer, connected, sidecar_end, uid_allowed, served, timed_out, cancels>>

Write(r) ==
    /\ Becomes(r, "writing", "reading")
    /\ connected
    /\ sidecar_end # "closed"
    /\ to_sidecar' = Append(to_sidecar, r)
    /\ UNCHANGED <<to_client, turn, answer, connected, sidecar_end, uid_allowed, served, timed_out, cancels>>

\* Not connected, or the connection is lost.
WriteFails(r) ==
    /\ asked[r] = "writing"
    /\ ~connected \/ sidecar_end = "closed"
    /\ Fails(r, Silence)
    /\ UNCHANGED <<to_sidecar, to_client, connected, sidecar_end, uid_allowed, served, timed_out, cancels>>

\* read_frame: what comes where a header is expected is taken for one.
ReadHeader(r) ==
    /\ to_client # <<>>
    /\ Head(to_client).part = "header"
    /\ Becomes(r, "reading", "body")
    /\ to_client' = Tail(to_client)
    /\ UNCHANGED <<to_sidecar, turn, answer, connected, sidecar_end, uid_allowed, served, timed_out, cancels>>

\* It is not one: a length of nothing that was sent, and some of the stream
\* goes with it.
ReadGarbage(r) ==
    /\ asked[r] = "reading"
    /\ to_client # <<>>
    /\ Head(to_client).part = "body"
    /\ Fails(r, Silence)
    /\ \E n \in 1..Len(to_client) : to_client' = SubSeq(to_client, n + 1, Len(to_client))
    /\ UNCHANGED <<to_sidecar, connected, sidecar_end, uid_allowed, served, timed_out, cancels>>

\* Mutant: the id is not compared.
AnyReply(r, frame) == TRUE

\* What _request accepts as its answer: an error is raised before the id is
\* looked at.
Mine(r, frame) == frame.id = r

Receive(r) ==
    LET frame == Head(to_client)
    IN  /\ asked[r] = "body"
        /\ to_client # <<>>
        /\ to_client' = Tail(to_client)
        /\ IF frame.kind = "resp" /\ Mine(r, frame)
           THEN /\ asked' = [asked EXCEPT ![r] = "done"]
                /\ Given(r, frame.id)
                /\ EndsTurn(r)
           ELSE Fails(r, frame.id)
        /\ connected' = (connected /\ (r = Hello => asked'[r] = "done"))
        /\ UNCHANGED <<to_sidecar, sidecar_end, uid_allowed, served, timed_out, cancels>>

\* The stream ended.
ReadTruncated(r) ==
    /\ asked[r] \in {"reading", "body"}
    /\ to_client = <<>>
    /\ sidecar_end = "closed"
    /\ Fails(r, Silence)
    /\ UNCHANGED <<to_sidecar, to_client, connected, sidecar_end, uid_allowed, served, timed_out, cancels>>

\* wait_for ran out: the stream cannot be used again.
Timeout(r) ==
    /\ asked[r] \in {"reading", "body"}
    /\ Fails(r, Silence)
    /\ connected' = FALSE
    /\ timed_out' = TRUE
    /\ UNCHANGED <<to_sidecar, to_client, sidecar_end, uid_allowed, served, cancels>>

\* CancelledError is not caught: only the lock is left, and the frame may be
\* written all the same.
CancelCall(r) ==
    /\ asked[r] \in {"waiting", "writing", "reading", "body"}
    /\ cancels < MaxCancels
    /\ cancels' = cancels + 1
    /\ asked' = [asked EXCEPT ![r] = "cancelled"]
    /\ EndsTurn(r)
    /\ \/ UNCHANGED to_sidecar
       \/ /\ asked[r] = "writing"
          /\ connected /\ sidecar_end # "closed"
          /\ to_sidecar' = Append(to_sidecar, r)
    /\ connected' = (connected /\ r # Hello)
    /\ UNCHANGED <<to_client, answer, sidecar_end, uid_allowed, served, timed_out>>

-----------------------------------------------------------------------------
(* The sidecar.                                                            *)

Reply(id, kind) ==
    to_client' = to_client \o <<[id |-> id, part |-> "header", kind |-> kind],
                      [id |-> id, part |-> "body", kind |-> kind]>>

\* _write_err, and the connection is closed; what was sent is still read.
RefusePeer(id) ==
    /\ Reply(id, "err")
    /\ sidecar_end' = "closed"
    /\ to_sidecar' = <<>>
    /\ UNCHANGED <<turn, asked, answer, connected, uid_allowed, served, timed_out, cancels>>

Authenticate ==
    /\ sidecar_end = "new"
    /\ ~uid_allowed
    /\ RefusePeer(Unknown)

Greet ==
    /\ sidecar_end = "new"
    /\ uid_allowed
    /\ to_sidecar # <<>>
    /\ Head(to_sidecar) = Hello
    /\ Reply(Hello, "resp")
    /\ sidecar_end' = "greeted"
    /\ to_sidecar' = Tail(to_sidecar)
    /\ UNCHANGED <<turn, asked, answer, connected, uid_allowed, served, timed_out, cancels>>

Allowed(id) == id \in Caps

DispatchOp ==
    /\ sidecar_end = "greeted"
    /\ to_sidecar # <<>>
    /\ Allowed(Head(to_sidecar))
    /\ served' = served \cup {Head(to_sidecar)}
    /\ Reply(Head(to_sidecar), "resp")
    /\ to_sidecar' = Tail(to_sidecar)
    /\ UNCHANGED <<turn, asked, answer, connected, sidecar_end, uid_allowed, timed_out, cancels>>

\* The envelope is refused, or the backend raises.
DispatchFails ==
    /\ sidecar_end = "greeted"
    /\ to_sidecar # <<>>
    /\ RefusePeer(Head(to_sidecar))

\* A frame that is too large or damaged.
BadFrame ==
    /\ sidecar_end \in {"new", "greeted"}
    /\ to_sidecar # <<>>
    /\ RefusePeer(Unknown)

\* The client closed, or the process ends.
CloseSidecar ==
    /\ sidecar_end # "closed"
    /\ sidecar_end' = "closed"
    /\ UNCHANGED <<to_sidecar, to_client, turn, asked, answer, connected, uid_allowed, served, timed_out, cancels>>

ChannelNext ==
    \/ \E r \in Call \cup {Hello} :
        \/ Ask(r) \/ TakeTurn(r) \/ Write(r) \/ WriteFails(r) \/ ReadHeader(r)
        \/ ReadGarbage(r) \/ Receive(r) \/ ReadTruncated(r) \/ Timeout(r)
        \/ CancelCall(r)
    \/ Authenticate
    \/ Greet
    \/ DispatchOp
    \/ DispatchFails
    \/ BadFrame
    \/ CloseSidecar

ChannelSpec == ChannelInit /\ [][ChannelNext]_channelVars

-----------------------------------------------------------------------------
(* Properties.                                                             *)

\* Whatever was cancelled, late or lost before it, a request that succeeds
\* has the answer to itself, and the backend gave it.
OwnReply ==
    \A r \in Call : asked[r] = "done" => answer[r] = r /\ r \in served

\* A stream a request gave up on is never written to again: no later request
\* waits behind its answer.
NoReuseAfterTimeout == [][timed_out /\ to_sidecar' # to_sidecar => Len(to_sidecar') < Len(to_sidecar)]_channelVars

\* Nothing is done for a client that is not allowed, or that the backend did
\* not offer.
OnlyAdvertised == served \subseteq Caps /\ (served # {} => uid_allowed)

\* What a client and a sidecar that lose, delay and cancel still owe each other:
\* every answer to its own request, no work that was not offered, no stream used
\* again after a timeout.
ChannelKept == [](OwnReply /\ OnlyAdvertised) /\ NoReuseAfterTimeout

=============================================================================
