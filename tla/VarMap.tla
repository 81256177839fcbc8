------------------------------- MODULE VarMap -------------------------------
(***************************************************************************)
(* VarMap<Var>::State (nvse/nvse/VarMap.h): the live variables of one kind *)
(* (arrays, strings) by id, which of them nothing refers to, which ids are *)
(* free again, and a cache of the variable that was got last.              *)
(*                                                                         *)
(* A state is a record.  The cache holds an id and a pointer: `current`    *)
(* says that the pointer is that of the variable the map holds under the   *)
(* id (it is not once the variable is deleted or overwritten), and         *)
(* `misled` that Get handed out a pointer that was not.                    *)
(***************************************************************************)
EXTENDS Integers, FiniteSetsExt, Functions, TLC

\* The cache after Reset().
NothingCached == [id |-> 0, current |-> TRUE]

NewState == [vars      |-> [id \in {} |-> 0],
             tempVars  |-> {},
             available |-> {},
             cache     |-> NothingCached,
             misled    |-> FALSE]

Live(s) == DOMAIN s.vars

UnusedID(s) ==
    IF s.available # {} THEN Min(s.available)
    ELSE IF Live(s) # {} THEN Max(Live(s)) + 1 ELSE 1

\* Mutant: the id stayed among the free ones.
TakeUnusedIDLeavingIt(s) == s

\* GetUnusedID: an id from the free ones is taken off them; an id above the
\* greatest one is not reserved by anything.
TakeUnusedID(s) == [s EXCEPT !.available = @ \ {UnusedID(s)}]

\* Get, without its result: the variable is vars[id] unless the state is misled.
Get(s, id) ==
    CASE id = 0           -> s
      [] id # 0 /\ s.cache.id = id
                          -> [s EXCEPT !.misled = @ \/ ~s.cache.current]
      [] id # 0 /\ s.cache.id # id
                          -> [s EXCEPT !.cache = IF id \in Live(s)
                                                 THEN [id |-> id, current |-> TRUE]
                                                 ELSE @]

\* std::map's operator[], assigned to.
With(f, x, y) == [z \in DOMAIN f \cup {x} |-> IF z = x THEN y ELSE f[z]]

\* The map forgets or replaces the variable: a cached pointer to it stays.
Outdated(cache, id) == [cache EXCEPT !.current = @ /\ cache.id # id]

Insert(s, id, var) ==
    [s EXCEPT !.vars  = With(@, id, var),
              !.cache = Outdated(@, id)]

\* Mutant: Delete left the pointer in the cache.
CacheRemoveForgotten(s, id) == s

CacheRemove(s, id) ==
    [s EXCEPT !.cache = IF @.id = id THEN NothingCached ELSE @]

\* The end of Delete, when the destructor has run.
Forget(s, id) ==
    [s EXCEPT !.vars      = Restrict(@, DOMAIN @ \ {id}),
              !.tempVars  = @ \ {id},
              !.available = @ \cup {id},
              !.cache     = Outdated(@, id)]

MarkTemporary(s, id, temporary) ==
    [s EXCEPT !.tempVars = IF temporary THEN @ \cup {id} ELSE @ \ {id}]

SetIDAvailable(s, ids) == [s EXCEPT !.available = @ \cup ids]
=============================================================================
