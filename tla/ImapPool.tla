------------------------------- MODULE ImapPool -------------------------------
(***************************************************************************)
(* The opt-in pool of logged-in IMAP clients (imap_connector.py,           *)
(* ImapConnectionPool).  FastMCP runs the synchronous tools on a thread     *)
(* pool, so several threads call session() at once; close() is the atexit  *)
(* hook and may run while they do.                                         *)
(*                                                                         *)
(* A thread is at one label of the code (`pc`).  What it does between two  *)
(* labels is one step: it touches one lock, or one connection, or fields   *)
(* that the lock it holds protects.                                        *)
(***************************************************************************)
EXTENDS Naturals

CONSTANTS
  Threads,      (* the tool threads, and the one that runs the atexit hook *)
  Keys,         (* the (host, email) pairs                                 *)
  Conns,        (* client objects                                          *)
  IdleTimeout,  (* idle_timeout_s, in ticks                                *)
  Free,         (* a lock no thread holds                                  *)
  NoConn,       (* no cache entry, no local `entry`                        *)
  NoKey         (* the thread is in no session                             *)

ASSUME FreeAssumption   == Free \notin Threads
ASSUME NoConnAssumption == NoConn \notin Conns
ASSUME IdleAssumption   == IdleTimeout \in Nat

VARIABLES
  pc,         (* where each thread is                                      *)
  key,        (* the key of a thread's session                             *)
  held,       (* a thread's local `entry`                                  *)
  todo,       (* the entries a close() still has to log out                *)
  cacheLock,  (* the holder of _cache_lock                                 *)
  cache,      (* _cache                                                    *)
  lock,       (* the holder of each entry's lock                           *)
  idle,       (* now - last_used of each entry, up to IdleTimeout + 1      *)
  link        (* "new", "up" once logged in, "out" once logged out         *)

local == <<pc, key, held, todo>>
vars  == <<pc, key, held, todo, cacheLock, cache, lock, idle, link>>

Labels == {"ready", "lookup", "dropStale", "connect", "wait", "locked",
           "used", "invalidate", "logout", "close", "drain", "closing"}

(* The labels inside `with entry.lock`.                                    *)
Locked == {"locked", "used", "invalidate", "logout", "closing"}

(* The labels inside `with self._cache_lock`; the other blocks under that  *)
(* lock touch the dict only and are one step.                              *)
Guarded == {"dropStale", "connect"}

(* A client nobody refers to; a new one may get its place.                 *)
Unreferenced(c) ==
  /\ link[c] # "up"
  /\ \A k \in Keys : cache[k] # c
  /\ \A t \in Threads : held[t] # c /\ c \notin todo[t]

TypeOK ==
  /\ pc \in [Threads -> Labels]
  /\ key \in [Threads -> Keys \cup {NoKey}]
  /\ held \in [Threads -> Conns \cup {NoConn}]
  /\ todo \in [Threads -> SUBSET Conns]
  /\ cacheLock \in Threads \cup {Free}
  /\ cache \in [Keys -> Conns \cup {NoConn}]
  /\ lock \in [Conns -> Threads \cup {Free}]
  /\ idle \in [Conns -> 0 .. IdleTimeout + 1]
  /\ link \in [Conns -> {"new", "up", "out"}]

Init ==
  /\ pc = [t \in Threads |-> "ready"]
  /\ key = [t \in Threads |-> NoKey]
  /\ held = [t \in Threads |-> NoConn]
  /\ todo = [t \in Threads |-> {}]
  /\ cacheLock = Free
  /\ cache = [k \in Keys |-> NoConn]
  /\ lock = [c \in Conns |-> Free]
  /\ idle = [c \in Conns |-> 0]
  /\ link = [c \in Conns |-> "new"]

Goto(t, label) == pc' = [pc EXCEPT ![t] = label]

(* The session ends: its locals go out of scope.                           *)
Return(t) ==
  /\ Goto(t, "ready")
  /\ key' = [key EXCEPT ![t] = NoKey]
  /\ held' = [held EXCEPT ![t] = NoConn]
  /\ UNCHANGED todo

-------------------------------------------------------------------------------
(* session()                                                               *)

Begin(t, k) ==
  /\ pc[t] = "ready"
  /\ Goto(t, "lookup")
  /\ key' = [key EXCEPT ![t] = k]
  /\ UNCHANGED <<held, todo, cacheLock, cache, lock, idle, link>>

(* Under _cache_lock: a fresh entry is taken and the lock released; a      *)
(* stale one is popped; for a missing one the thread goes on to connect.   *)
(* last_used is read without the entry's lock.                             *)
LookupFresh(t) ==
  /\ pc[t] = "lookup"
  /\ cacheLock = Free
  /\ cache[key[t]] # NoConn
  /\ idle[cache[key[t]]] <= IdleTimeout
  /\ held' = [held EXCEPT ![t] = cache[key[t]]]
  /\ Goto(t, "wait")
  /\ UNCHANGED <<key, todo, cacheLock, cache, lock, idle, link>>

LookupStale(t) ==
  /\ pc[t] = "lookup"
  /\ cacheLock = Free
  /\ cache[key[t]] # NoConn
  /\ idle[cache[key[t]]] > IdleTimeout
  /\ cacheLock' = t
  /\ held' = [held EXCEPT ![t] = cache[key[t]]]
  /\ cache' = [cache EXCEPT ![key[t]] = NoConn]
  /\ Goto(t, "dropStale")
  /\ UNCHANGED <<key, todo, lock, idle, link>>

LookupMissing(t) ==
  /\ pc[t] = "lookup"
  /\ cacheLock = Free
  /\ cache[key[t]] = NoConn
  /\ cacheLock' = t
  /\ Goto(t, "connect")
  /\ UNCHANGED <<key, held, todo, cache, lock, idle, link>>

(* The polite logout of a stale client, without taking its lock.           *)
DropStale(t) ==
  /\ pc[t] = "dropStale"
  /\ link' = [link EXCEPT ![held[t]] = "out"]
  /\ held' = [held EXCEPT ![t] = NoConn]
  /\ Goto(t, "connect")
  /\ UNCHANGED <<key, todo, cacheLock, cache, lock, idle>>

(* The idle time of an entry whose last_used is now.  Mutant: it is left   *)
(* at zero, the clock's origin.                                            *)
SinceOrigin == IdleTimeout + 2
SinceNow    == 0

(* IMAPClient(...), login and the entry's store, all under _cache_lock.    *)
Connect(t, c) ==
  /\ pc[t] = "connect"
  /\ Unreferenced(c)
  /\ link' = [link EXCEPT ![c] = "up"]
  /\ lock' = [lock EXCEPT ![c] = Free]
  /\ idle' = [idle EXCEPT ![c] = SinceNow]
  /\ cache' = [cache EXCEPT ![key[t]] = c]
  /\ held' = [held EXCEPT ![t] = c]
  /\ cacheLock' = Free
  /\ Goto(t, "wait")
  /\ UNCHANGED <<key, todo>>

(* Mutant: acquire() and release() without a `with`.                       *)
ConnectFailsLocked(t) ==
  /\ pc[t] = "connect"
  /\ Return(t)
  /\ UNCHANGED <<cacheLock, cache, lock, idle, link>>

(* The connect or the login raises; the `with` releases the lock.          *)
ConnectFails(t) ==
  /\ pc[t] = "connect"
  /\ cacheLock' = Free
  /\ Return(t)
  /\ UNCHANGED <<cache, lock, idle, link>>

(* `with entry.lock`, outside the cache lock.                              *)
AcquireEntry(t) ==
  /\ pc[t] = "wait"
  /\ lock[held[t]] = Free
  /\ lock' = [lock EXCEPT ![held[t]] = t]
  /\ Goto(t, "locked")
  /\ UNCHANGED <<key, held, todo, cacheLock, cache, idle, link>>

(* A command of the caller's block is answered.                            *)
Command(t) ==
  /\ pc[t] \in {"locked", "used"}
  /\ link[held[t]] = "up"
  /\ Goto(t, "used")
  /\ UNCHANGED <<key, held, todo, cacheLock, cache, lock, idle, link>>

(* The block ends normally: last_used is bumped.                           *)
FinishOk(t) ==
  /\ pc[t] = "used"
  /\ idle' = [idle EXCEPT ![held[t]] = SinceNow]
  /\ lock' = [lock EXCEPT ![held[t]] = Free]
  /\ Return(t)
  /\ UNCHANGED <<cacheLock, cache, link>>

(* The block raises something else (no match, bad argument): the entry     *)
(* stays cached and last_used as it was.                                   *)
FinishOther(t) ==
  /\ pc[t] \in {"locked", "used"}
  /\ lock' = [lock EXCEPT ![held[t]] = Free]
  /\ Return(t)
  /\ UNCHANGED <<cacheLock, cache, idle, link>>

(* One of _POOL_INVALIDATE_EXCS: a dropped link, a protocol error, or any  *)
(* command on a client that is logged out.                                 *)
Fails(t) ==
  /\ pc[t] \in {"locked", "used"}
  /\ Goto(t, "invalidate")
  /\ UNCHANGED <<key, held, todo, cacheLock, cache, lock, idle, link>>

(* `self._cache.get(key) is entry`: nobody has reconnected meanwhile.      *)
(* Mutants: the entry is never dropped; it is dropped without looking.     *)
NeverDropped(t)  == FALSE
AlwaysDropped(t) == TRUE
StillCached(t)   == cache[key[t]] = held[t]

(* Drop the entry if it is still this one.                                 *)
Invalidate(t) ==
  /\ pc[t] = "invalidate"
  /\ cacheLock = Free
  /\ cache' = IF StillCached(t) THEN [cache EXCEPT ![key[t]] = NoConn] ELSE cache
  /\ Goto(t, "logout")
  /\ UNCHANGED <<key, held, todo, cacheLock, lock, idle, link>>

(* Log out, let the entry's lock go and re-raise.                          *)
Logout(t) ==
  /\ pc[t] = "logout"
  /\ link' = [link EXCEPT ![held[t]] = "out"]
  /\ lock' = [lock EXCEPT ![held[t]] = Free]
  /\ Return(t)
  /\ UNCHANGED <<cacheLock, cache, idle>>

-------------------------------------------------------------------------------
(* close()                                                                 *)

BeginClose(t) ==
  /\ pc[t] = "ready"
  /\ Goto(t, "close")
  /\ UNCHANGED <<key, held, todo, cacheLock, cache, lock, idle, link>>

(* Copy the entries and clear the dict, under the cache lock.              *)
TakeAll(t) ==
  /\ pc[t] = "close"
  /\ cacheLock = Free
  /\ todo' = [todo EXCEPT ![t] = {c \in Conns : \E k \in Keys : cache[k] = c}]
  /\ cache' = [k \in Keys |-> NoConn]
  /\ Goto(t, "drain")
  /\ UNCHANGED <<key, held, cacheLock, lock, idle, link>>

(* Mutant: log the next entry out at once, as before #171.                 *)
DrainAtOnce(t, c) ==
  /\ pc[t] = "drain"
  /\ c \in todo[t]
  /\ held' = [held EXCEPT ![t] = c]
  /\ Goto(t, "closing")
  /\ UNCHANGED <<key, todo, cacheLock, cache, lock, idle, link>>

(* Wait for the holder of the next entry, then log it out.                 *)
DrainLock(t, c) ==
  /\ pc[t] = "drain"
  /\ c \in todo[t]
  /\ lock[c] = Free
  /\ lock' = [lock EXCEPT ![c] = t]
  /\ held' = [held EXCEPT ![t] = c]
  /\ Goto(t, "closing")
  /\ UNCHANGED <<key, todo, cacheLock, cache, idle, link>>

DrainLogout(t) ==
  /\ pc[t] = "closing"
  /\ link' = [link EXCEPT ![held[t]] = "out"]
  /\ lock' = [lock EXCEPT ![held[t]] = Free]
  /\ todo' = [todo EXCEPT ![t] = @ \ {held[t]}]
  /\ held' = [held EXCEPT ![t] = NoConn]
  /\ Goto(t, "drain")
  /\ UNCHANGED <<key, cacheLock, cache, idle>>

EndClose(t) ==
  /\ pc[t] = "drain"
  /\ todo[t] = {}
  /\ Return(t)
  /\ UNCHANGED <<cacheLock, cache, lock, idle, link>>

-------------------------------------------------------------------------------
(* The monotonic clock moves: every entry has been idle a tick longer.     *)
Tick ==
  /\ \E c \in Conns : idle[c] <= IdleTimeout
  /\ idle' = [c \in Conns |-> IF idle[c] > IdleTimeout THEN idle[c] ELSE idle[c] + 1]
  /\ UNCHANGED <<local, cacheLock, cache, lock, link>>

(* What a thread does once it has called session() or close().             *)
Continue(t) ==
  \/ LookupFresh(t) \/ LookupStale(t) \/ LookupMissing(t) \/ DropStale(t)
  \/ \E c \in Conns : Connect(t, c)
  \/ ConnectFails(t) \/ AcquireEntry(t) \/ Command(t)
  \/ FinishOk(t) \/ FinishOther(t) \/ Fails(t) \/ Invalidate(t) \/ Logout(t)
  \/ TakeAll(t) \/ (\E c \in Conns : DrainLock(t, c)) \/ DrainLogout(t)
  \/ EndClose(t)

Call(t) == BeginClose(t) \/ \E k \in Keys : Begin(t, k)

Next == Tick \/ \E t \in Threads : Call(t) \/ Continue(t)

Spec == Init /\ [][Next]_vars

-------------------------------------------------------------------------------
(* Fairness: the operating system runs every thread that can run, and the  *)
(* connect and operation timeouts bound every call on a socket.  A lock is *)
(* not fair to its waiters, so the steps that take one are only weakly     *)
(* fair, and only finitely many tools are called.                          *)

Ends(t) == FinishOk(t) \/ FinishOther(t) \/ Fails(t)

Opens(t) == ConnectFails(t) \/ \E c \in Conns : Connect(t, c)

Fairness ==
  \A t \in Threads :
    /\ WF_vars(LookupFresh(t) \/ LookupStale(t) \/ LookupMissing(t))
    /\ WF_vars(DropStale(t))
    /\ WF_vars(Opens(t))
    /\ WF_vars(AcquireEntry(t))
    /\ WF_vars(Ends(t))
    /\ WF_vars(Invalidate(t) \/ Logout(t))
    /\ WF_vars(TakeAll(t) \/ DrainLogout(t) \/ EndClose(t))
    /\ WF_vars(\E c \in Conns : DrainLock(t, c))

FinitelyManyCalls == <>[][~ \E t \in Threads : Call(t)]_vars

FairSpec == Spec /\ Fairness /\ FinitelyManyCalls

-------------------------------------------------------------------------------
(* A session hands out what the cache holds, so the cache must never hold  *)
(* a client the pool has logged out: not while a failed session, a stale   *)
(* lookup and a close() race to drop the same entry.                       *)
CachedLive ==
  \A k \in Keys : cache[k] # NoConn => link[cache[k]] = "up"

(* No logged-in client is forgotten: it is cached, or some thread is about *)
(* to log it out, whichever thread popped it from the cache.               *)
NoLeak ==
  \A c \in Conns : link[c] = "up" =>
    \/ \E k \in Keys : cache[k] = c
    \/ \E t \in Threads : pc[t] \in {"dropStale", "logout"} /\ held[t] = c
    \/ \E t \in Threads : c \in todo[t]

(* A client never serves two threads: the blocks under an entry's lock,    *)
(* close()'s logout among them, exclude each other, and a client belongs   *)
(* to the cache entry of one key only.                                     *)
ExclusiveUse ==
  /\ \A t, u \in Threads :
       pc[t] \in Locked /\ pc[u] \in Locked /\ held[t] = held[u] => t = u
  /\ \A j, k \in Keys : cache[j] # NoConn /\ cache[j] = cache[k] => j = k

(* Every session and every close() comes back: invalidation takes the      *)
(* cache lock while it holds an entry's lock, so the two orders of taking  *)
(* locks must never close a circle.                                        *)
CallsReturn ==
  \A t \in Threads : pc[t] # "ready" ~> pc[t] = "ready"

(* The close docstring: a holder finishes before the connection is dropped *)
(* underneath it.  Is a client ever logged out by another thread while the *)
(* holder of its lock is between two commands?                             *)
HolderKeepsClient ==
  \A t \in Threads : pc[t] = "used" => link[held[t]] = "up"
===============================================================================
