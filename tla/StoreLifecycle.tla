--------------------------- MODULE StoreLifecycle ---------------------------
(***************************************************************************)
(* What the deactivation of a store promises, in one variable for the fence *)
(* and one for what the store holds: "Deactivation commits a new generation *)
(* before requesting cancellation, so late Activity completion cannot write *)
(* into an inactive store."  Once the fence is up the contents only shrink, *)
(* the fence never comes down, and a store is closed only when it is empty. *)
(***************************************************************************)
VARIABLES fence, contents

Init == fence = "open" /\ contents = {}

\* Retrieval work adds or removes something.
Write == fence = "open" /\ UNCHANGED fence /\ contents' # contents

\* The generation moves on.
Fence == fence = "open" /\ fence' = "fenced" /\ UNCHANGED contents

\* Cleanup removes some or all of what is left.
CleanUp == fence = "fenced" /\ UNCHANGED fence /\ contents' \subseteq contents

\* The store becomes inactive.
Close == fence = "fenced" /\ contents = {} /\ fence' = "closed" /\ UNCHANGED contents

Next == Write \/ Fence \/ CleanUp \/ Close

Spec == Init /\ [][Next]_<<fence, contents>>
=============================================================================
