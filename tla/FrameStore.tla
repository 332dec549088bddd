----------------------------- MODULE FrameStore -----------------------------
(***************************************************************************)
(* What the gateway's upload queue promises its callers, with the card,    *)
(* the file system, the mount state and power failures hidden.             *)
(*                                                                         *)
(* A frame the store has accepted stays in it until one of four things has *)
(* happened: the server acknowledged it, the server rejected it for good,  *)
(* it was evicted to make room, or its medium went bad.  A reboot is none  *)
(* of the four, so the abstract store does not even have such a step.      *)
(***************************************************************************)
EXTENDS Integers

CONSTANTS Event         \* capture events

VARIABLES store,        \* the entries held, one per file
          landed,       \* frames the server has stored
          rejected      \* frames the server refused permanently

storeVars == <<store, landed, rejected>>

Frame == [ev : Event, full : BOOLEAN]

(* An entry is a named copy of a frame; ok = FALSE once its medium is bad. *)
Entry == [key : Nat, full : BOOLEAN, ev : Event, ok : BOOLEAN]

FrameOf(e) == [ev |-> e.ev, full |-> e.full]

(* Entries of an earlier owner are data, not scratch space.                *)
StoreInit ==
    /\ \A e, o \in store : <<o.key, o.full>> = <<e.key, e.full>> => o = e
    /\ landed = {}
    /\ rejected = {}

(* A frame goes in whole, under a name nothing else has.                   *)
Accept(e) ==
    /\ e.ok
    /\ \A o \in store : <<o.key, o.full>> # <<e.key, e.full>>
    /\ store' = store \cup {e}
    /\ UNCHANGED <<landed, rejected>>

Land(f) ==
    /\ landed' = landed \cup {f}
    /\ UNCHANGED <<store, rejected>>

Reject(f) ==
    /\ rejected' = rejected \cup {f}
    /\ UNCHANGED <<store, landed>>

(* Refused for good and removed at once.                                   *)
Refuse(e) ==
    /\ e \in store
    /\ rejected' = rejected \cup {FrameOf(e)}
    /\ store' = store \ {e}
    /\ UNCHANGED landed

(* An entry leaves after its frame was settled with the server.            *)
Settle(e) ==
    /\ e \in store
    /\ FrameOf(e) \in landed \cup rejected
    /\ store' = store \ {e}
    /\ UNCHANGED <<landed, rejected>>

(* An entry is traded for an incoming frame f: a full for anything, oldest *)
(* first; a thumb only for another thumb, and only when no full is left.   *)
Evict(e, f) ==
    /\ e \in store
    /\ \A o \in store : o.full = e.full => e.key <= o.key
    /\ \/ e.full
       \/ ~ f.full /\ \A o \in store : ~ o.full
    /\ store' = store \ {e}
    /\ UNCHANGED <<landed, rejected>>

Spoil(e) ==
    /\ e \in store
    /\ store' = (store \ {e}) \cup {[e EXCEPT !.ok = FALSE]}
    /\ UNCHANGED <<landed, rejected>>

Discard(e) ==
    /\ e \in store
    /\ ~ e.ok
    /\ store' = store \ {e}
    /\ UNCHANGED <<landed, rejected>>

StoreNext ==
    \/ \E e \in store' : Accept(e)
    \/ \E f \in Frame : Land(f) \/ Reject(f)
    \/ \E e \in store : Refuse(e) \/ Settle(e) \/ Spoil(e) \/ Discard(e)
    \/ \E e \in store, f \in Frame : Evict(e, f)

StoreSpec == StoreInit /\ [][StoreNext]_storeVars

=============================================================================
