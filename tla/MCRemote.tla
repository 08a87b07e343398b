------------------------------ MODULE MCRemote ------------------------------
(* Remote, with the bytes of its messages beside it. *)
EXTENDS Remote, Protocol

\* Every message the one side writes is read by the other as it was, to the last
\* byte of it and no further, whatever follows it in the stream: all the constructors
\* read what the serialize of their class has written.  Strings have no zero in
\* them, and a node has fewer than 256 children (AICharacterDetailsMessage.h:33).
\* A message is taken for complete when its last byte is there, and not before:
\* this is what Remote assumes of its two units.  The formula is about no state:
\* once is enough.
MessagesSurvive == Init => Waits /\ \A next \in {<<>>, <<0, 1, 2, 3>>} : Survives(next)
============================================================================
