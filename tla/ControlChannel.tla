--------------------------- MODULE ControlChannel ---------------------------
(***************************************************************************)
(* One end of the control line between the host and a microVM guest: the   *)
(* SessionChannel of microvm_protocol.py.  Frames are authenticated for    *)
(* the session and the sending side, so a frame on the line is one that    *)
(* the peer really sent; what the line may do is repeat it, lose its end   *)
(* or stay silent.  Every operator gives the channel's next state.         *)
(***************************************************************************)
EXTENDS Naturals, Sequences

Kinds == {"ready", "execute", "result", "error"}

Channels == [sent : Nat, received : Nat, failed : BOOLEAN, executed : BOOLEAN]

NewChannel == [sent |-> 0, received |-> 0, failed |-> FALSE, executed |-> FALSE]

(* send: refused after a failure, and a second execute or one from the guest. *)
MaySend(side, ch, kind) ==
    /\ ~ch.failed
    /\ kind = "execute" => side = "host" /\ ~ch.executed

Frame(ch, kind, body) == [seq |-> ch.sent + 1, kind |-> kind, body |-> body]

Sent(ch, kind) ==
    [ch EXCEPT !.sent = @ + 1, !.executed = @ \/ kind = "execute"]

(* Any exception in send or receive makes the channel unusable for good. *)
Broken(ch) == [ch EXCEPT !.failed = TRUE]

(* receive: the next sequence number, and the kind expected or an error.    *)
Accepts(side, ch, expected, frame) ==
    /\ ~ch.failed
    /\ expected = "execute" => side = "guest" /\ ~ch.executed
    /\ frame.seq = ch.received + 1
    /\ frame.kind \in {expected, "error"}

(* An error frame is raised as RemoteSessionError, which breaks the channel *)
(* like any other exception.                                                *)
Received(ch, frame) ==
    [ch EXCEPT !.received = @ + 1, !.executed = @ \/ frame.kind = "execute",
               !.failed = frame.kind = "error"]
=============================================================================
