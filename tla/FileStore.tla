------------------------------- MODULE FileStore -------------------------------
(* What a file system promises its callers: a dictionary from paths to files  *)
(* and directories, changed by one call at a time.  A call may be refused, and *)
(* then changes nothing; only a write may be cut short, and then says so.      *)
EXTENDS Integers, Sequences

CONSTANTS Paths, Values, MaxSize, Absent, Directory

VARIABLES store,  \* path -> Absent, Directory or the contents of a file
          last    \* the last call to return, what it wrote, and whether it reported success

storevars == <<store, last>>

IsFile(p) == store[p] # Absent /\ store[p] # Directory

\* A path of one name lives in the root; a longer one needs its parent.
ParentExists(p) == Len(p) = 1 \/ store[SubSeq(p, 1, Len(p) - 1)] = Directory

\* n units of v over the start of old: what lies behind them stays.
Overlay(old, v, n) ==
  [i \in 1 .. (IF n > Len(old) THEN n ELSE Len(old)) |-> IF i <= n THEN v ELSE old[i]]

Returns(kind, p, arg, ok) == last' = [kind |-> kind, path |-> p, arg |-> arg, ok |-> ok]

Create(p) == /\ store[p] = Absent /\ ParentExists(p)
             /\ store' = [store EXCEPT ![p] = <<>>]
             /\ Returns("create", p, <<>>, TRUE)

Mkdir(p) == /\ store[p] = Absent /\ ParentExists(p)
            /\ store' = [store EXCEPT ![p] = Directory]
            /\ Returns("mkdir", p, <<>>, TRUE)

Delete(p) == /\ IsFile(p)
             /\ store' = [store EXCEPT ![p] = Absent]
             /\ Returns("delete", p, <<>>, TRUE)

Write(p, v, n) == /\ IsFile(p)
                  /\ \E m \in 0 .. n :
                       /\ store' = [store EXCEPT ![p] = Overlay(@, v, m)]
                       /\ Returns("write", p, <<v, n>>, m = n)

Refuse(kind, p, arg) == UNCHANGED store /\ Returns(kind, p, arg, FALSE)

\* The machine stops in the middle of a call; the store is as it was before it.
StoreCrash == UNCHANGED store /\ Returns("crash", <<>>, <<>>, FALSE)

StoreNext ==
  \/ \E p \in Paths :
       \/ Create(p) \/ Mkdir(p) \/ Delete(p)
       \/ \E v \in Values, n \in 0 .. MaxSize : Write(p, v, n) \/ Refuse("write", p, <<v, n>>)
       \/ \E kind \in {"create", "mkdir", "delete"} : Refuse(kind, p, <<>>)
  \/ StoreCrash

StoreSpec == [][StoreNext]_storevars
================================================================================
