------------------------------ MODULE MCTCPServer ------------------------------
(* Clients of the gateway.  An order is two units; payloads are cut across   *)
(* frames, pings and text come in between, and connections end in every way  *)
(* the protocol has.                                                         *)
EXTENDS TCPServer

Frame(op, units) == [op |-> op, masked |-> TRUE, wide |-> FALSE, payload |-> [i \in DOMAIN units |-> [part |-> units[i]]]]
Wide(op, units)  == [Frame(op, units) EXCEPT !.wide = TRUE]
Bare(op, units)  == [Frame(op, units) EXCEPT !.masked = FALSE]

Good  == <<[line |-> "get"], Key, Blank>>
NoKeyRequest == <<[line |-> "get"], Blank>>

Client(frames) == [request |-> Good, frames |-> frames]

(* An order, and one whose halves travel in two frames around a ping. *)
Split == Client(<<Frame("binary", <<"a1", "a2", "b1">>), Frame("ping", << >>),
                  Wide("binary", <<"b2">>)>>)

(* Text is skipped, its continuation is not; then a close frame. *)
Mixed == Client(<<Frame("text", <<"t1">>), Frame("continuation", <<"a1", "a2">>),
                  Frame("close", << >>), Frame("binary", <<"b1", "b2">>)>>)

TooLong  == Client(<<Frame("binary", <<"a1", "a2">>),
                     Wide("binary", <<"b1", "b2", "b3", "b4", "b5">>)>>)
Unmasked == Client(<<Frame("binary", <<"a1", "a2">>), Bare("binary", <<"b1", "b2">>)>>)
Stranger == [request |-> NoKeyRequest, frames |-> <<Frame("binary", <<"a1", "a2">>)>>]

MCScripts == {Split, Mixed, TooLong, Unmasked, Stranger}
===============================================================================
