---------------------------- MODULE CartHistory ----------------------------
(***************************************************************************)
(* What the cart service still promises users whose calls overlap.  The    *)
(* calls of CartStore are those of its specification; variables that it    *)
(* does not read keep which AddItem calls were alone with the cart, and    *)
(* which were there when the cart was emptied.                             *)
(***************************************************************************)
EXTENDS CartStore

VARIABLES
    settled,   \* of each user: AddItem calls that no other had read beside
    emptied,   \* of each user: those that an emptying found unread
    holds,     \* of each user: those that made the stored cart
    carries    \* those that made the copy each call has read

history == <<settled, emptied, holds, carries>>

HistoryInit ==
    /\ Init
    /\ settled = [u \in Users |-> {}]
    /\ emptied = [u \in Users |-> {}]
    /\ holds = [u \in Users |-> {}]
    /\ carries = [c \in Calls |-> {}]

\* The calls that have a copy of the user's cart, and will write it back.
Readers(u) == {c \in Calls : pc[c] = "read" /\ asked[c].user = u}

\* The AddItem calls of the user that have written.
Written(u) ==
    {c \in DOMAIN asked : /\ asked[c].op = "add" /\ asked[c].user = u
                          /\ pc[c] \in {"written", "ok", "half"}}

Read(c) ==
    /\ ReadForAdd(c)
    /\ carries' = [carries EXCEPT ![c] = holds[asked[c].user]]
    /\ UNCHANGED <<settled, emptied, holds>>

Add(c) ==
    /\ WriteAdded(c)
    /\ LET u == asked[c].user IN
       /\ holds' = [holds EXCEPT ![u] = carries[c] \cup {c}]
       /\ settled' = [settled EXCEPT ![u] = IF Readers(u) = {c} THEN @ \cup {c} ELSE @]
    /\ UNCHANGED <<emptied, carries>>

\* The cart was emptied, or has expired.
Cleared(u) ==
    /\ holds' = [holds EXCEPT ![u] = {}]
    /\ settled' = [settled EXCEPT ![u] = {}]
    /\ emptied' = [emptied EXCEPT ![u] = IF Readers(u) = {} THEN Written(u) ELSE @]
    /\ UNCHANGED carries

HistoryNext ==
    \/ \E c \in Calls, request \in Requests : Start(c, request) /\ UNCHANGED history
    \/ \E c \in Calls :
        \/ Read(c) \/ Add(c)
        \/ WriteEmpty(c) /\ Cleared(asked[c].user)
        \/ (SetExpiry(c) \/ GetCart(c) \/ Fail(c)) /\ UNCHANGED history
    \/ Crash /\ UNCHANGED history
    \/ \E u \in Users : Expire(u) /\ Cleared(u)

HistorySpec == HistoryInit /\ [][HistoryNext]_<<vars, history>>

-----------------------------------------------------------------------------

\* The cart that AddItem calls make: each adds its quantity once, and int32
\* wraps.
SumOf(adds) ==
    [p \in {asked[c].product : c \in adds} |->
        Plus(0, SumFunctionOnSet(Quantity, {c \in adds : asked[c].product = p}))]

\* A cart of the user is the sum of some of the AddItem calls that have
\* written: of every one that was settled, and of none that was emptied.
Explains(cart, u, adds) ==
    /\ settled[u] \subseteq adds /\ adds \subseteq Written(u) \ emptied[u]
    /\ ItemsOf(cart) = SumOf(adds)

\* The stored cart, product by product and for any int32 quantities, is what
\* AddItem calls asked for, each counted once (ValkeyCartStore.cs:148-173).
\* Calls that overlap may lose items and bring emptied ones back.  But what a
\* call wrote while no other had a copy of the cart stays, until the cart is
\* emptied or expires; and what was there when it was emptied, while none had
\* a copy, never comes back.
OnlyOverlapsLoseOrRestore ==
    \A u \in Users : \E adds \in SUBSET Written(u) : Explains(store[u], u, adds)

-----------------------------------------------------------------------------
(* What the proof adds. *)

\* The sets that explain the carts, and the copies that will be written back.
CartsAreExplained ==
    /\ holds \in [Users -> SUBSET Calls] /\ carries \in [Calls -> SUBSET Calls]
    /\ settled \in [Users -> SUBSET Calls] /\ emptied \in [Users -> SUBSET Calls]
    /\ IsFiniteSet(DOMAIN asked)
    /\ \A u \in Users : emptied[u] \subseteq Written(u) /\ Explains(store[u], u, holds[u])
    /\ \A c \in Calls :
        pc[c] = "read" => Explains(value[c], asked[c].user, carries[c])

=============================================================================
