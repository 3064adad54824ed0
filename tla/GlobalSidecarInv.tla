-------------------------- MODULE GlobalSidecarInv --------------------------
(***************************************************************************)
(* The inductive invariant of GlobalSidecar.  Its heart is Anchored: as    *)
(* long as somebody has a private lease, or a publisher an ordinary one,   *)
(* the entry is the one the lease is on.  So all who have a process of the *)
(* Global Sidecar in hand have the same entry, and the lease, the closed   *)
(* gate and the drained gate tell them apart.                              *)
(***************************************************************************)
EXTENDS GlobalSidecar

(* Who creates holds a permit: a thread without one is between two calls,  *)
(* or publishes.                                                           *)
Permitted ==
  \A t \in Creators : creator[t] = "idle" =>
    \/ job[t].step \in {"idle", "probe", "hit", "miss", "restart"}
    \/ t # Monitor /\ job[t].step \in {"publish", "write"}

(* A stop of everything goes on under the gate it was called under.        *)
StopLicensed == \A x \in Stops : stopAll[x].step # "none" => Licensed(x)

Leasing == {"drain", "kill", "spawn", "install", "discard", "release", "retire", "settle",
            "detach", "write"}
Making == {"kill", "spawn", "install", "discard", "health", "ready"}

(* The shape of a job at each of its steps. *)
Shapes ==
  \A t \in Jobs :
    /\ job[t].step \in Leasing => job[t].lease # 0
    /\ job[t].step \notin Leasing \cup {"reserve"} => job[t].lease = 0
    /\ job[t].step \in Making \cup {"publish", "write"} => job[t].gen # 0
    /\ job[t].step = "write" => job[t].gen = job[t].lease
    /\ job[t].step = "kill" => job[t].gen # job[t].lease
    /\ t \in Stoppers => job[t].step \in {"idle", "wait", "retire", "settle", "detach"}

(* Nobody knows a generation that was not drawn. *)
Drawn ==
  /\ entry.gen <= lastGen /\ portFile <= lastGen
  /\ entry.gen = 0 => entry = NoEntry
  /\ \A g \in Gens : g > lastGen => gate[g] = "none" /\ proc[g] = "none"
  /\ \A t \in Jobs : job[t].gen <= lastGen /\ job[t].lease <= lastGen
  /\ \A x \in Stops : stopAll[x].gen <= lastGen

(* Gates that have leases or an entry exist; the gate of a candidate that  *)
(* replaces another does not exist before it is published.                 *)
Gated ==
  /\ entry.gen # 0 => gate[entry.gen] # "none"
  /\ \A g \in Gens : requests[g] > 0 => gate[g] # "none"
  /\ \A t \in Jobs : job[t].lease # 0 => gate[job[t].lease] # "none"
  /\ \A t \in Jobs :
       job[t].step \in {"kill", "spawn", "install", "discard"} /\ job[t].gen # job[t].lease
         => gate[job[t].gen] = "none"

(* A generation is made by one thread. *)
OneMaker ==
  \A t, u \in Jobs :
    job[t].step \in Making /\ job[u].step \in Making /\ job[t].gen = job[u].gen => t = u

Anchored ==
  \A t \in Jobs : job[t].lease # 0 /\ job[t].step \notin {"discard", "release"}
                   => entry.gen = job[t].lease

(* A birth in progress, and a replacement past the wait for the requests.  *)
Bearing(t) == job[t].step \in {"spawn", "install"} /\ job[t].gen = job[t].lease
Replacing(t) ==
  \/ job[t].step = "kill"
  \/ job[t].step \in {"spawn", "install"} /\ job[t].gen # job[t].lease
Parting(t) == job[t].step = "reserve" /\ job[t].lease # 0

(* A closer owns the only DispatchReplacement of its gate. *)
Closer(t) == job[t].step \in {"drain", "retire", "settle", "detach"} \/ Replacing(t) \/ Parting(t)
OneCloser ==
  /\ \A t \in Jobs : Closer(t) \/ job[t].step \in {"discard", "release"}
                     => gate[job[t].lease] = "closed"
  /\ \A t, u \in Jobs : Closer(t) /\ Closer(u) /\ job[t].lease = job[u].lease => t = u

(* Past its wait it is alone with the generation. *)
Alone(t) == job[t].step \in {"settle", "detach"} \/ Replacing(t) \/ Parting(t)
DrainedAlone ==
  \A t \in Jobs : Alone(t) =>
    /\ requests[job[t].lease] = 0
    /\ \A u \in Jobs : job[u].lease = job[t].lease => u = t

(* It took the process out of the entry. *)
Taken ==
  \A t \in Jobs : job[t].step \in {"settle", "detach"} \/ Replacing(t) \/ Bearing(t)
                   => ~entry.held

(* It took the port file away. *)
Unpublished ==
  \A t \in Jobs : job[t].step = "detach" \/ Replacing(t) \/ Parting(t) \/ Bearing(t)
                   => portFile # job[t].lease

(* Nobody can use a generation that is being born. *)
Unborn ==
  \A t \in Jobs : Bearing(t) =>
    /\ ~entry.healthy /\ requests[job[t].lease] = 0
    /\ \A u \in Jobs : job[u].step = "write" => job[u].lease # job[t].lease

(* While everything is stopped no entry is born; what was taken out is     *)
(* dropped by whoever took it.                                             *)
StopAllAlone ==
  /\ \A x \in Stops : stopAll[x].step = "drain" =>
       /\ entry.gen \in {0, stopAll[x].gen}
       /\ stopAll[x].gen # 0 => gate[stopAll[x].gen] = "closed"
  /\ \A x \in Stops : stopAll[x].step \in {"drop", "ended", "exited"} => entry = NoEntry
  /\ \A x \in Stops : stopAll[x].step = "drop" /\ stopAll[x].gen # 0
                        => gate[stopAll[x].gen] = "closed"
  /\ \A x, y \in Stops :
       stopAll[x].step = "drop" /\ stopAll[y].step = "drop"
         /\ stopAll[x].gen # 0 /\ stopAll[y].gen # 0 => x = y

(* Nothing runs that nobody would stop: every process is in its entry, or  *)
(* a thread has it in hand.                                                *)
InHand(g) ==
  \/ \E t \in Jobs : \/ At(t, "install") /\ job[t].gen = g
                     \/ At(t, "discard") /\ job[t].gen = g
                     \/ At(t, "kill") /\ job[t].lease = g
                     \/ At(t, "settle") /\ job[t].lease = g
  \/ \E x \in Stops : stopAll[x].step = "drop" /\ stopAll[x].gen = g
NoOrphan == \A g \in Gens : proc[g] \in Up => (entry.gen = g /\ entry.held) \/ InHand(g)

(* A closed entry has somebody who will remove or replace it; an unwanted  *)
(* entry is closed.                                                        *)
InCharge ==
  /\ entry.gen # 0 /\ gate[entry.gen] = "closed" =>
       \/ \E t \in Jobs : Closer(t) /\ job[t].lease = entry.gen
       \/ \E x \in Stops : stopAll[x].step = "drain" /\ stopAll[x].gen = entry.gen
  /\ ~desired /\ entry.gen # 0 => gate[entry.gen] = "closed"

GlobalInv ==
  /\ TypeOK /\ Permitted /\ StopLicensed /\ Shapes /\ Drawn /\ Gated /\ OneMaker
  /\ Anchored /\ OneCloser /\ DrainedAlone /\ Taken /\ Unpublished /\ Unborn
  /\ StopAllAlone /\ NoOrphan /\ InCharge /\ PortFileFresh
=============================================================================
