---------------------------- MODULE StorePromise ----------------------------
(***************************************************************************)
(* What the Worker's chunk store promises the Server.  A chunk file is     *)
(* installed once; it may disappear as long as nobody was promised it; a   *)
(* promised file stays as it is for ever.                                  *)
(***************************************************************************)
CONSTANTS Chunk, Content, None

VARIABLES final,     \* the content of each chunk's file
          promised   \* the chunks the Server may rely on

Init == final = [i \in Chunk |-> None] /\ promised = {}

install(i, v) ==
  /\ final[i] = None
  /\ final' = [final EXCEPT ![i] = v]
  /\ UNCHANGED promised

\* A directory sync can make several accepted files safe at once.
promise(new) ==
  /\ \A i \in new : final[i] # None
  /\ promised' = promised \cup new
  /\ UNCHANGED final

\* A crash; whatever is left after it may be promised.
lose(gone) ==
  /\ gone \cap promised = {}
  /\ final' = [i \in Chunk |-> IF i \in gone THEN None ELSE final[i]]
  /\ promised \subseteq promised'
  /\ \A i \in promised' : final'[i] # None

Next ==
  \/ \E i \in Chunk, v \in Content : install(i, v)
  \/ \E new \in SUBSET Chunk : promise(new)
  \/ \E gone \in SUBSET Chunk : lose(gone)

Spec == Init /\ [][Next]_<<final, promised>>
=============================================================================
