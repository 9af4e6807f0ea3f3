------------------------------ MODULE PeerMarks ------------------------------
(***************************************************************************)
(* What the propagation node promises of the messages it holds for its     *)
(* peers, in the terms of LXMF, which rfed replaces: a message is handled  *)
(* or unhandled for a peer's hash (lxmf_propagation.rs 1790-1792).  There  *)
(* are no slots here, so no peer can take another's marks for its own.     *)
(***************************************************************************)
CONSTANTS
  Msgs,
  Peers,       \* the hashes of propagation nodes
  StaticPeers

VARIABLES
  held,        \* the messages stored
  peers,       \* the nodes peered with
  marks,       \* per message and hash: "none", "handled" or "unhandled"
  file         \* the marks of those peered with at the last clean exit

vars == <<held, peers, marks, file>>

Unmarked == [p \in Peers |-> "none"]

Init ==
  /\ held = {} /\ peers = StaticPeers
  /\ marks = [m \in Msgs |-> Unmarked]
  /\ file = [p \in {} |-> [m \in Msgs |-> "none"]]

\* Queued for all but the peer it came from, which has it.
Store(m, from) ==
  /\ m \notin held
  /\ held' = held \cup {m}
  /\ marks' = [marks EXCEPT ![m] = [p \in Peers |-> IF p \notin peers THEN "none"
                                                   ELSE IF p \in from THEN "handled" ELSE "unhandled"]]
  /\ UNCHANGED <<peers, file>>

Handle(m, p) ==
  /\ m \in held /\ p \in peers
  /\ marks' = [marks EXCEPT ![m][p] = "handled"]
  /\ UNCHANGED <<held, peers, file>>

Drop(gone) ==
  /\ gone \subseteq held
  /\ held' = held \ gone
  /\ marks' = [m \in Msgs |-> IF m \in gone THEN Unmarked ELSE marks[m]]
  /\ UNCHANGED <<peers, file>>

\* A peer that comes back finds what was handled and unhandled for it.
Peered(p) == peers' = peers \cup {p} /\ UNCHANGED <<held, marks, file>>
Unpeered(p) == peers' = peers \ {p} /\ UNCHANGED <<held, marks, file>>

\* A clean exit saves the peers' marks; a start has what was saved last.
Restarted(saved) ==
  /\ saved \in {file, [p \in peers |-> [m \in Msgs |-> marks[m][p]]]}
  /\ file' = saved
  /\ peers' = DOMAIN saved \cup StaticPeers
  /\ marks' = [m \in Msgs |-> [p \in Peers |-> IF m \in held /\ p \in DOMAIN saved THEN saved[p][m] ELSE "none"]]
  /\ UNCHANGED held

Next ==
  \/ \E m \in Msgs : \E from \in {{}} \cup {{p} : p \in Peers} : Store(m, from)
  \/ \E m \in Msgs, p \in Peers : Handle(m, p)
  \/ \E gone \in SUBSET held : Drop(gone)
  \/ \E p \in Peers : Peered(p) \/ Unpeered(p)
  \/ \E saved \in {file, [p \in peers |-> [m \in Msgs |-> marks[m][p]]]} : Restarted(saved)

Spec == Init /\ [][Next]_vars
=============================================================================
