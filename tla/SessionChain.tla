----------------------------- MODULE SessionChain -----------------------------
(***************************************************************************)
(* What a family of refresh sessions promises: its tokens form a chain of  *)
(* which only the head can be refreshed.  The head moves to a newer token, *)
(* a family may end, and an ended family never has a head again.           *)
(***************************************************************************)
EXTENDS Naturals

CONSTANT MaxSessions

VARIABLES started,   \* families, named by their first session
          head       \* the session of a family that can be refreshed, or 0

Sessions == 1..MaxSessions

Init == started = {} /\ head = [f \in Sessions |-> 0]

Start(f) ==
    /\ f \notin started
    /\ started' = started \union {f}
    /\ head' = [head EXCEPT ![f] = f]

Advance(f, s) ==
    /\ head[f] # 0 /\ s > head[f]
    /\ head' = [head EXCEPT ![f] = s]
    /\ UNCHANGED started

End(f) ==
    /\ head[f] # 0
    /\ head' = [head EXCEPT ![f] = 0]
    /\ UNCHANGED started

Next == \E f \in Sessions : Start(f) \/ (\E s \in Sessions : Advance(f, s)) \/ End(f)

Spec == Init /\ [][Next]_<<started, head>>
==============================================================================
