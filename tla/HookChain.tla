----------------------------- MODULE HookChain -----------------------------
(***************************************************************************)
(* What the hook manager promises at one filter point: the hooks form a    *)
(* chain, higher priorities first and among equals the one registered      *)
(* first; the chain changes between two packets only, and every packet is  *)
(* shown to its hooks one after the other until one of them decides.       *)
(***************************************************************************)
EXTENDS Naturals, Sequences

CONSTANT Hook   \* hooks with their priorities

VARIABLES
  chain,    \* the hooks registered
  inPass,   \* a packet is being filtered
  pending,  \* hooks the packet has not been shown to yet
  decided   \* a hook has dropped the packet or truncated the chain

vars == <<chain, inPass, pending, decided>>
passVars == <<inPass, pending, decided>>

Init == chain = <<>> /\ ~inPass /\ pending = <<>> /\ ~decided

\* The place of a new hook: behind those of its own priority.
Belongs(h, n) ==
  /\ \A i \in 1..n-1 : chain[i].priority >= h.priority
  /\ \A i \in n..Len(chain) : chain[i].priority < h.priority

Register(h) ==
  /\ ~inPass
  /\ \A i \in 1..Len(chain) : chain[i] # h
  /\ \E n \in 1..Len(chain)+1 :
       /\ Belongs(h, n)
       /\ chain' = SubSeq(chain, 1, n-1) \o <<h>> \o SubSeq(chain, n, Len(chain))
  /\ UNCHANGED passVars

Unregister(h) ==
  /\ ~inPass
  /\ \E n \in 1..Len(chain) :
       /\ chain[n] = h
       /\ chain' = SubSeq(chain, 1, n-1) \o SubSeq(chain, n+1, Len(chain))
  /\ UNCHANGED passVars

BeginPass ==
  /\ ~inPass /\ inPass'
  /\ pending' = chain
  /\ UNCHANGED <<chain, decided>>

Consult ==
  /\ inPass /\ ~decided
  /\ pending # <<>>
  /\ pending' = Tail(pending)
  /\ decided' \in BOOLEAN
  /\ UNCHANGED <<chain, inPass>>

EndPass ==
  /\ inPass /\ ~inPass'
  /\ pending = <<>> \/ decided
  /\ pending' = <<>> /\ ~decided'
  /\ UNCHANGED chain

Next ==
  \/ \E h \in Hook : Register(h) \/ Unregister(h)
  \/ BeginPass \/ Consult \/ EndPass

Spec == Init /\ [][Next]_vars
=============================================================================
