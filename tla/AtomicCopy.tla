------------------------------ MODULE AtomicCopy ------------------------------
(***************************************************************************)
(* What a file transfer promises, without chunks, partial files and        *)
(* hashes: a destination changes in one step, and only to a complete       *)
(* content that its source had at some moment since the copy began.        *)
(*                                                                         *)
(* A source goes through versions 1, 2, ...; Content(g, v) is what version *)
(* v of source g holds.  Pull and Push implement this specification.       *)
(***************************************************************************)
EXTENDS Naturals

CONSTANTS
    Sources,        \* files that are copied
    Dests,          \* files that are written
    Content(_, _),  \* content of a version of a source
    Missing,        \* content of a file that does not exist
    MayVanish       \* a file may be deleted to make room for the new one

VARIABLES
    source,         \* version of each source
    dest,           \* content of each destination
    copies          \* copies under way

vars == <<source, dest, copies>>

Init ==
    /\ source = [g \in Sources |-> 1]
    /\ dest = [d \in Dests |-> Missing]
    /\ copies = {}

(* Somebody writes a new version of a source. *)
Change(g) ==
    /\ source' = [source EXCEPT ![g] = @ + 1]
    /\ UNCHANGED <<dest, copies>>

(* A copy begins, of the version the source has now or of a later one.     *)
(* Others may end in the same step.                                        *)
Start(g, d) ==
    /\ copies' \subseteq copies \cup {[from |-> g, to |-> d, since |-> source[g]]}
    /\ UNCHANGED <<source, dest>>

(* Copies end, with or without success. *)
Stop ==
    /\ copies' \subseteq copies
    /\ UNCHANGED <<source, dest>>

(* The destination of a copy becomes a whole version of its source, one    *)
(* that was there while the copy was under way; the copy may end with it.  *)
Replace(c) ==
    /\ \E v \in c.since .. source[c.from] :
          dest' = [dest EXCEPT ![c.to] = Content(c.from, v)]
    /\ copies' \subseteq copies
    /\ UNCHANGED source

(* The old file is deleted and the copy does not get any further. *)
Vanish(c) ==
    /\ MayVanish
    /\ dest' = [dest EXCEPT ![c.to] = Missing]
    /\ copies' \subseteq copies
    /\ UNCHANGED source

Next ==
    \/ \E g \in Sources : Change(g)
    \/ \E g \in Sources, d \in Dests : Start(g, d)
    \/ Stop
    \/ \E c \in copies : Replace(c) \/ Vanish(c)

Spec == Init /\ [][Next]_vars

=============================================================================
