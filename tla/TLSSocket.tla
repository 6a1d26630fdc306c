----------------------------- MODULE TLSSocket -----------------------------
(***************************************************************************)
(* cores/arduino/TLSSocket.cpp: one TCP connection, with mbed TLS on it    *)
(* when a CA was given.  The server's bytes are counted in units, numbered *)
(* from 1 in each connection; two units make a TLS record, and a unit is   *)
(* what a plain recv returns.  mbed TLS itself is external: it takes units *)
(* in their order and finds out (sequence numbers, MAC) when one is        *)
(* missing.  The operators say what a call does; the module that owns the  *)
(* socket says who calls it.                                               *)
(***************************************************************************)
EXTENDS Naturals, Sequences

CONSTANTS
  Portion      (* how many units one TCP recv of 128 bytes may return      *)

ASSUME PortionAssumption == Portion \in Nat \ {0}

VARIABLES
  secure,      (* _ssl_ca_pem is not NULL                                  *)
  tcp,         (* our end: "closed" or "open"                              *)
  peer,        (* the server's end: "up", "closed", "reset", or "gone",    *)
               (* of which nothing is heard any more                       *)
  arrived,     (* units TCP has received and nobody has read               *)
  _recv_buffer,
  taken,       (* units mbed TLS has taken                                 *)
  dropped      (* history: units were lost for want of memory              *)

socketVars == <<secure, tcp, peer, arrived, _recv_buffer, taken, dropped>>

SocketInit ==
  /\ secure \in BOOLEAN /\ tcp = "closed" /\ peer = "up"
  /\ arrived = <<>> /\ _recv_buffer = <<>> /\ taken = 0 /\ dropped = FALSE

(* A new TLSSocket, made with or without a CA.                             *)
NewSocket(ca) ==
  /\ secure' = ca /\ tcp' = "closed" /\ peer' = "up"
  /\ arrived' = <<>> /\ _recv_buffer' = <<>> /\ taken' = 0 /\ dropped' = FALSE

Connects == tcp' = "open" /\ UNCHANGED <<secure, peer, arrived, _recv_buffer, taken, dropped>>
ConnectRefused == UNCHANGED socketVars

(* close()                                                                 *)
Closes == tcp' = "closed" /\ UNCHANGED <<secure, peer, arrived, _recv_buffer, taken, dropped>>

-----------------------------------------------------------------------------
(* ssl_recv, called by mbed TLS for one unit.                              *)

From(s, n) == SubSeq(s, n, Len(s))

(* It hands out the first unit, and keeps what else it has read.           *)
SslRecvForgets(u) ==                                      \* wrong: the rest is freed
  \/ /\ _recv_buffer = <<>> /\ arrived # <<>>
     /\ \E n \in 1 .. Portion :
          /\ n <= Len(arrived) /\ u = Head(arrived)
          /\ _recv_buffer' = <<>> /\ arrived' = From(arrived, n + 1)
SslRecv(u) ==
  \/ /\ _recv_buffer # <<>> /\ u = Head(_recv_buffer)
     /\ _recv_buffer' = Tail(_recv_buffer) /\ UNCHANGED arrived
  \/ /\ _recv_buffer = <<>> /\ arrived # <<>>
     /\ \E n \in 1 .. Portion :
          /\ n <= Len(arrived) /\ u = Head(arrived)
          /\ _recv_buffer' = SubSeq(arrived, 2, n) /\ arrived' = From(arrived, n + 1)

(* realloc failed: what was read is gone, and mbed TLS is told to ask      *)
(* again.                                                                  *)
SslRecvDrops ==
  /\ _recv_buffer = <<>> /\ arrived # <<>>
  /\ \E n \in 1 .. Portion : n <= Len(arrived) /\ arrived' = From(arrived, n + 1)
  /\ dropped' = TRUE
  /\ UNCHANGED <<secure, tcp, peer, _recv_buffer, taken>>

(* TCP had nothing, or the server has closed: it is all the same.          *)
SslRecvNothing == _recv_buffer = <<>> /\ arrived = <<>> /\ peer # "reset"
SslRecvError == _recv_buffer = <<>> /\ arrived = <<>> /\ peer = "reset"

(* mbed TLS takes a unit that follows on the last; half a record...        *)
Record(u) == u \div 2
Whole(u) == u % 2 = 0
TakesHalf ==
  /\ secure /\ SslRecv(taken + 1) /\ taken' = taken + 1 /\ ~Whole(taken + 1)
  /\ UNCHANGED <<secure, tcp, peer, dropped>>
(* ... or the one that completes it ...                                    *)
TakesRecord(i) ==
  /\ secure /\ SslRecv(taken + 1) /\ taken' = taken + 1 /\ Whole(taken + 1)
  /\ i = Record(taken + 1)
  /\ UNCHANGED <<secure, tcp, peer, dropped>>
(* ... or another one, which is an error, as a failing socket is.          *)
TakesWrong ==
  /\ secure
  /\ \/ \E u \in {Head(s) : s \in {arrived, _recv_buffer} \ {<<>>}} :
          u # taken + 1 /\ SslRecv(u) /\ UNCHANGED <<secure, tcp, peer, taken, dropped>>
     \/ SslRecvError /\ UNCHANGED socketVars

-----------------------------------------------------------------------------
(* recv, after the handshake: a part of the server's answer, nothing (0),  *)
(* or an error.  Without TLS the call waits until TCP has something or the *)
(* connection ends.                                                        *)
RecvGets(i) ==
  \/ TakesRecord(i)
  \/ /\ ~secure /\ arrived # <<>> /\ i = Head(arrived) /\ arrived' = Tail(arrived)
     /\ UNCHANGED <<secure, tcp, peer, _recv_buffer, taken, dropped>>
RecvZero ==
  \/ secure /\ SslRecvNothing /\ UNCHANGED socketVars
  \/ secure /\ SslRecvDrops
  \/ ~secure /\ arrived = <<>> /\ peer = "closed" /\ UNCHANGED socketVars
RecvError ==
  \/ TakesWrong
  \/ ~secure /\ arrived = <<>> /\ peer = "reset" /\ UNCHANGED socketVars

SendError == peer = "reset" /\ UNCHANGED socketVars

SocketTypeOK ==
  /\ secure \in BOOLEAN /\ dropped \in BOOLEAN
  /\ tcp \in {"closed", "open"} /\ peer \in {"up", "closed", "reset", "gone"}
  /\ arrived \in Seq(Nat) /\ _recv_buffer \in Seq(Nat) /\ taken \in Nat
=============================================================================
