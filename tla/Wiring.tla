------------------------------- MODULE Wiring -------------------------------
(***************************************************************************)
(* How a NestJS application is wired to an engine: the pollers that the    *)
(* root module and the feature modules contribute (collectPollers of       *)
(* src/nestjs/module.ts) and the decorated methods the explorer finds and  *)
(* registers as their handlers (src/nestjs/explorer.ts).                   *)
(*                                                                         *)
(* A provider or controller appears to the explorer as a wrapper, and one  *)
(* instance may stand behind several of them; a class that is provided     *)
(* twice has two instances. A wrapper's metatype is the class, or the      *)
(* function of a useFactory provider, whose prototype (an arrow has none)  *)
(* says nothing of what it will make. What metadata the methods of a class *)
(* carry is a constant.                                                    *)
(***************************************************************************)
EXTENDS Naturals, Sequences, SequencesExt

CONSTANTS
  Name,          \* the names pollers and @OnWatukuyEvent() use
  Definition,    \* what definePoller() returned
  Called,        \* the name of each definition
  Instance,      \* objects among the providers and controllers
  ClassOf,       \* the class of each
  Decorated,     \* for each class, the names its methods are decorated with
  Nobody,        \* no handler
  Elsewhere,     \* a handler the application attached with engine.on() itself
  MaxModules,    \* bound: contributions of pollers
  MaxWrappers    \* bound: wrappers the container lists

VARIABLES
  contributed,   \* definitions, in the order the container lists them
  wrappers,      \* what DiscoveryService returns
  consumer,      \* the handler of each poller
  before,        \* history: the handlers before the bootstrap
  wired          \* "no" before, then how attach ended

wiringVars == <<contributed, wrappers, consumer, before, wired>>

Wrapper == [isAlias : BOOLEAN, static : BOOLEAN, factory : BOOLEAN, instance : Instance]

(* collectPollers: the same definition twice counts once, two definitions  *)
(* of one name are an error.                                               *)
Collect(defs) ==
  LET add(map, def) ==
        IF map.failed \/ def \in map.defs THEN map
        ELSE IF \E other \in map.defs : Called[other] = Called[def]
        THEN [map EXCEPT !.failed = TRUE]
        ELSE [map EXCEPT !.defs = @ \cup {def}]
  IN FoldLeft(add, [defs |-> {}, failed |-> FALSE], defs)

Known(defs) == {Called[def] : def \in Collect(defs).defs}

Names(i) == Decorated[ClassOf[i]]

(* decoratedMethods, in the order the scanner lists them.                  *)
Methods(i) == SetToSeq(Names(i))

(* rejectNonStatic: there is no instance to bind the methods of the class  *)
(* to. Of a factory it sees no methods.                                    *)
Rejected(w) == ~w.static /\ ~w.factory /\ Methods(w.instance) # <<>>

(* Mutant: one handler per class, not per instance.                        *)
DiscoverClasses(list) ==
  LET visit(scan, w) ==
        IF scan.failed \/ w.isAlias THEN scan
        ELSE IF Rejected(w) THEN [scan EXCEPT !.failed = TRUE]
        ELSE IF ~w.static \/ ClassOf[w.instance] \in scan.seen THEN scan
        ELSE LET names == Methods(w.instance)
             IN [scan EXCEPT !.seen = @ \cup {ClassOf[w.instance]},
                             !.found = @ \o [i \in DOMAIN names |-> <<names[i], w.instance>>]]
  IN FoldLeft(visit, [found |-> <<>>, seen |-> {}, failed |-> FALSE], list)

(* discover: every decorated method of an instance once, whatever wrappers *)
(* it has.                                                                 *)
Discover(list) ==
  LET visit(scan, w) ==
        IF scan.failed \/ w.isAlias THEN scan
        ELSE IF Rejected(w) THEN [scan EXCEPT !.failed = TRUE]
        ELSE IF ~w.static \/ w.instance \in scan.seen THEN scan
        ELSE LET names == Methods(w.instance)
             IN [scan EXCEPT !.seen = @ \cup {w.instance},
                             !.found = @ \o [i \in DOMAIN names |-> <<names[i], w.instance>>]]
  IN FoldLeft(visit, [found |-> <<>>, seen |-> {}, failed |-> FALSE], list)

(* attach, its first loop: each name known, and found once.                *)
Valid(found) ==
  \A i \in DOMAIN found :
    /\ found[i][1] \in Known(contributed)
    /\ \A j \in 1..(i - 1) : found[j][1] # found[i][1]

(* engine.on, for the handlers in turn: it throws at a poller that has a   *)
(* consumer, and those before it stay.                                     *)
Register(found) ==
  LET taken == {i \in DOMAIN found : consumer[found[i][1]] # Nobody}
      upto == IF taken = {} THEN Len(found) ELSE Min(taken) - 1
  IN /\ consumer' = [n \in Name |->
                       IF \E i \in 1..upto : found[i][1] = n
                       THEN found[CHOOSE i \in 1..upto : found[i][1] = n][2]
                       ELSE consumer[n]]
     /\ wired' = IF taken = {} THEN "ok" ELSE "taken"

(* Mutant: each handler is registered as it is checked.                    *)
AttachAtOnce ==
  LET scan == Discover(wrappers)
      good == {i \in DOMAIN scan.found : Valid(SubSeq(scan.found, 1, i))}
  IN /\ wired = "no"
     /\ Register(SubSeq(scan.found, 1, IF good = {} THEN 0 ELSE Max(good)))
     /\ UNCHANGED <<contributed, wrappers, before>>

(* attach, after the engine was created from the collected pollers.        *)
Attach ==
  LET scan == Discover(wrappers)
  IN /\ wired = "no"
     /\ IF Collect(contributed).failed \/ scan.failed \/ ~Valid(scan.found)
        THEN wired' = "invalid" /\ UNCHANGED consumer
        ELSE Register(scan.found)
     /\ UNCHANGED <<contributed, wrappers, before>>

Init ==
  /\ contributed \in BoundedSeq(Definition, MaxModules)
  /\ wrappers \in BoundedSeq(Wrapper, MaxWrappers)
  /\ consumer \in [Name -> {Nobody, Elsewhere}]
  /\ \A n \in Name : consumer[n] = Elsewhere => n \in Known(contributed)
  /\ before = consumer
  /\ wired = "no"

Next == Attach

Spec == Init /\ [][Next]_wiringVars

-----------------------------------------------------------------------------
TypeOK ==
  /\ consumer \in [Name -> Instance \cup {Nobody, Elsewhere}]
  /\ before \in [Name -> {Nobody, Elsewhere}]
  /\ wired \in {"no", "ok", "invalid", "taken"}

(* Wrappers the explorer looks behind: not an alias, and not the factory   *)
(* of something request-scoped or transient, which it passes over.         *)
Real == {w \in ToSet(wrappers) : ~w.isAlias /\ (w.static \/ ~w.factory)}

(* What makes an application well-formed, in no particular order.          *)
WellFormed ==
  /\ \A d, e \in ToSet(contributed) : Called[d] = Called[e] => d = e
  /\ \A w \in Real :
       Names(w.instance) # {} =>
         w.static /\ Names(w.instance) \subseteq {Called[d] : d \in ToSet(contributed)}
  /\ \A v, w \in Real :
       v.instance # w.instance => Names(v.instance) \cap Names(w.instance) = {}

(* A bootstrap succeeds exactly when the application is well-formed and    *)
(* has not taken a handled poller itself; then every decorated method      *)
(* that the explorer looks behind is the handler of its poller, and no     *)
(* other poller has changed. It touches nothing when the application is    *)
(* not well-formed (attach: "Validates before attaching anything").        *)
WiredExactly ==
  LET handles(w, n) == n \in Names(w.instance)
  IN /\ wired = "invalid" => ~WellFormed /\ consumer = before
     /\ wired \in {"ok", "taken"} => WellFormed
     /\ wired = "ok" =>
          \A n \in Name :
            IF \E w \in Real : handles(w, n)
            THEN before[n] = Nobody /\ \E w \in Real : handles(w, n) /\ consumer[n] = w.instance
            ELSE consumer[n] = before[n]
=============================================================================
