---------------------------- MODULE SyncChannel ----------------------------
(***************************************************************************)
(* What the mixer control transport promises to its users, the facade and  *)
(* the authority: an end is told of a session, later that it is gone, and  *)
(* never of the same session again; while it is told of one, it hears what *)
(* the other end has sent in that session, from the first message on, in   *)
(* order, each once.  When the session breaks the rest is lost.            *)
(***************************************************************************)
EXTENDS Integers, Sequences

CONSTANTS Ends, Sessions    \* the two ends; identities 1, 2, ... of sessions

VARIABLES
  told,     \* told[e]: the session e is told of, 0 for none
  last,     \* last[e]: the last session e was ever told of
  said,     \* said[s][e]: how many messages e has sent in session s
  heard     \* heard[s][e]: the messages of session s that reached e

channelVars == <<told, last, said, heard>>

ChannelInit ==
  /\ told = [e \in Ends |-> 0]
  /\ last = [e \in Ends |-> 0]
  /\ said = [s \in Sessions |-> [e \in Ends |-> 0]]
  /\ heard = [s \in Sessions |-> [e \in Ends |-> <<>>]]

Numbered(n) == [i \in 1..n |-> i]

Say(e) ==
  /\ told[e] # 0
  /\ said' = [said EXCEPT ![told[e]][e] = @ + 1]
  /\ UNCHANGED <<told, last, heard>>

(* e is in session s, perhaps only from now on, and hears more of it.      *)
Hear(e, s) ==
  /\ told[e] = s \/ (told[e] = 0 /\ last[e] < s)
  /\ told' = [told EXCEPT ![e] = s]
  /\ last' = [last EXCEPT ![e] = s]
  /\ \E other \in Ends \ {e} : \E n \in Len(heard[s][e])..said[s][other] :
       heard' = [heard EXCEPT ![s][e] = Numbered(n)]
  /\ UNCHANGED said

Lose(e) ==
  /\ told' = [told EXCEPT ![e] = 0]
  /\ UNCHANGED <<last, said, heard>>

ChannelNext == \E e \in Ends : Say(e) \/ Lose(e) \/ \E s \in Sessions : Hear(e, s)

ChannelSpec == ChannelInit /\ [][ChannelNext]_channelVars
=============================================================================
