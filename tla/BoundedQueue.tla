---------------------------- MODULE BoundedQueue ----------------------------
(***************************************************************************)
(* What the admission of clients promises, seen without semaphores, ring   *)
(* indices or processes: pids are handed to the daemon in the order in     *)
(* which they were queued, and a client that is being served keeps its     *)
(* place, so that the clients queued and the clients served never exceed   *)
(* the configured capacity together (README.md: the resource of a client   *)
(* "reste dans la file" until its thread gives it back).                   *)
(***************************************************************************)
EXTENDS Naturals, Sequences

CONSTANTS
  Client,    \* the pids that may be queued
  Capacity,  \* MAX_BUFFER_SHM
  NoPid      \* no pid has been taken yet

VARIABLES
  queue,  \* the pids queued and not yet taken, oldest first
  taken,  \* the last pid the daemon took
  busy    \* how many places are held by clients already taken

vars == <<queue, taken, busy>>

TypeOK ==
  /\ queue \in Seq(Client)
  /\ taken \in Client \cup {NoPid}
  /\ busy \in 0 .. Capacity

Init ==
  /\ queue = << >>
  /\ taken = NoPid
  /\ busy = 0

(* A client joins the queue while a place is left. *)
Enqueue(c) ==
  /\ Len(queue) + busy < Capacity
  /\ queue' = Append(queue, c)
  /\ UNCHANGED <<taken, busy>>

(* The daemon takes the oldest pid, whose place stays occupied. *)
Dequeue ==
  /\ queue # << >>
  /\ taken' = Head(queue)
  /\ queue' = Tail(queue)
  /\ busy' = busy + 1

(* A service ends and gives its place back. *)
Release ==
  /\ busy > 0
  /\ busy' = busy - 1
  /\ UNCHANGED <<queue, taken>>

Next ==
  \/ \E c \in Client : Enqueue(c)
  \/ Dequeue
  \/ Release

Spec == Init /\ [][Next]_vars
=============================================================================
