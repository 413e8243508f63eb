----------------------------- MODULE TunRoutes -----------------------------
(***************************************************************************)
(* The routes and policy rules of the TUN inbound                          *)
(* (crates/hysteria/src/tun.rs, RouteSet; tun_linux_policy.rs,             *)
(* PolicyRules).  Any step of the installation may fail, and dropping what *)
(* was installed so far must leave the system as it was found.             *)
(*                                                                         *)
(* A route of the main table is [dest, dev, table]; a policy rule is a     *)
(* number in the order of strict_rules, at a priority block.               *)
(***************************************************************************)
EXTENDS Integers, Sequences, FiniteSets

CONSTANTS
  Dests,       \* destinations of routes
  Covers,      \* Covers[d]: the destinations that contain d, the best first
  Tables,      \* 202..252
  Blocks,      \* priority blocks, in order
  RuleCount,   \* rules of strict_rules (9)
  TunConfigs,  \* [exclude, include, strict]: sequences of destinations, a BOOLEAN
  Systems      \* [routes, rules]: what the system may hold beforehand

Main == 254

Devices == {"tun"} \union {r.dev : r \in UNION {s.routes : s \in Systems}}
Routes == [dest : Dests, dev : Devices, table : Int]
PolicyRules == [block : Int, index : Int]

ASSUME TunAssumption ==
  /\ Tables \subseteq Int /\ Blocks \subseteq Int
  /\ \A x \in TunConfigs : x.exclude \in Seq(Dests) /\ x.include \in Seq(Dests)
  /\ Systems \subseteq [routes : SUBSET Routes, rules : SUBSET PolicyRules]

VARIABLES
  tunCfg,     \* TunRouteConfig
  original,   \* the system before the installation
  system,     \* the system now
  step,       \* "idle", "exclude", "include", "policy", "up", "dropping", "gone"
  todo,       \* destinations this step has yet to install
  installed,  \* RouteSet::installed
  rules,      \* PolicyRules::rules
  table,      \* strict_table, an option
  stuck       \* something could not be deleted

tunVars == <<tunCfg, original, system, step, todo, installed, rules, table, stuck>>

Earlier(s) == SubSeq(s, 1, Len(s) - 1)
Newest(s) == s[Len(s)]

Route(d, dev, t) == [dest |-> d, dev |-> dev, table |-> t]
Rule(b, i) == [block |-> b, index |-> i]

TunInit ==
  /\ tunCfg \in TunConfigs /\ original \in Systems /\ system = original
  /\ step = "idle" /\ todo = <<>> /\ installed = <<>> /\ rules = <<>> /\ table = {} /\ stuck = FALSE

(* select_linux_table: the first table without a route. *)
SelectTable == {t \in Tables : /\ \A r \in original.routes : r.table # t
                               /\ \A u \in Tables : u < t => \E r \in original.routes : r.table = u}

(* select_priority: the first block without a rule. *)
SelectPriority == {b \in Blocks : /\ \A r \in original.rules : r.block # b
                                  /\ \A c \in Blocks : c < b => \E r \in original.rules : r.block = c}

(* The best route that covers an exclusion and is not the device's own. *)
Base(d) ==
  LET covering == {r \in original.routes : r.dev # "tun" /\ \E i \in DOMAIN Covers[d] : Covers[d][i] = r.dest}
  IN  {r \in covering : \A q \in covering :
         LET At(x) == CHOOSE i \in DOMAIN Covers[d] : Covers[d][i] = x.dest
         IN  At(r) <= At(q)}

-----------------------------------------------------------------------------
(* install: the lists are parsed, and a strict installation needs a table  *)
(* of its own.                                                             *)
Begin ==
  /\ step = "idle"
  /\ table' = IF tunCfg.strict THEN SelectTable ELSE {}
  /\ IF tunCfg.strict /\ table' = {}
     THEN step' = "dropping" /\ todo' = <<>>
     ELSE step' = "exclude" /\ todo' = tunCfg.exclude
  /\ UNCHANGED <<tunCfg, original, system, installed, rules, stuck>>

(* The `?` of a failed step drops the RouteSet. *)
Fail == step' = "dropping" /\ todo' = <<>> /\ UNCHANGED <<system, installed>>

(* Mutant: a route is noted before it is added. *)
AddEarly(r) ==
  /\ installed' = Append(installed, r) /\ todo' = Tail(todo)
  /\ IF r \in system.routes
     THEN step' = "dropping" /\ UNCHANGED system
     ELSE system' = [system EXCEPT !.routes = @ \cup {r}] /\ UNCHANGED step

(* manager.add, which refuses a route that exists. *)
Add(r) ==
  /\ r \notin system.routes
  /\ system' = [system EXCEPT !.routes = @ \cup {r}]
  /\ installed' = Append(installed, r) /\ todo' = Tail(todo) /\ UNCHANGED step

Exclude ==
  /\ step = "exclude"
  /\ IF todo = <<>>
     THEN step' = "include" /\ todo' = tunCfg.include /\ UNCHANGED <<system, installed>>
     ELSE \/ Fail
          \/ \E b \in Base(Head(todo)) : Add(Route(Head(todo), b.dev, b.table))
  /\ UNCHANGED <<tunCfg, original, rules, table, stuck>>

Include ==
  /\ step = "include"
  /\ IF todo = <<>>
     THEN /\ step' = IF tunCfg.strict THEN "policy" ELSE "up"
          /\ UNCHANGED <<todo, system, installed>>
     ELSE \/ Fail
          \/ \E t \in (IF tunCfg.strict THEN table ELSE {Main}) : Add(Route(Head(todo), "tun", t))
  /\ UNCHANGED <<tunCfg, original, rules, table, stuck>>

(* PolicyRules::install adds the rules one by one; a failure drops the     *)
(* ones that were added, and then the routes.                              *)
Policy ==
  /\ step = "policy"
  /\ \/ \E b \in SelectPriority :
          /\ Len(rules) < RuleCount
          /\ rules' = Append(rules, Rule(b, Len(rules)))
          /\ system' = [system EXCEPT !.rules = @ \cup {Rule(b, Len(rules))}]
          /\ UNCHANGED step
     \/ Len(rules) = RuleCount /\ step' = "up" /\ UNCHANGED <<system, rules>>
     \/ step' = "dropping" /\ UNCHANGED <<system, rules>>
  /\ UNCHANGED <<tunCfg, original, todo, installed, table, stuck>>

(* Any of the TUN's tasks ends, or the client stops. *)
Stop ==
  /\ step = "up" /\ step' = "dropping"
  /\ UNCHANGED <<tunCfg, original, system, todo, installed, rules, table, stuck>>

(* Mutant: the rules are left in place. *)
UndoRoutesOnly ==
  /\ step = "dropping"
  /\ IF installed # <<>>
     THEN \E ok \in BOOLEAN :
            /\ installed' = Earlier(installed)
            /\ system' = IF ok THEN [system EXCEPT !.routes = @ \ {Newest(installed)}] ELSE system
            /\ stuck' = (stuck \/ ~ok)
            /\ UNCHANGED <<step, rules>>
     ELSE step' = "gone" /\ UNCHANGED <<installed, system, rules, stuck>>
  /\ UNCHANGED <<tunCfg, original, todo, table>>

(* Drop: the rules and then the routes, last first; a failed deletion is   *)
(* logged and the next one tried.                                          *)
Undo ==
  /\ step = "dropping"
  /\ \E ok \in BOOLEAN :
       \/ /\ rules # <<>> /\ rules' = Earlier(rules)
          /\ system' = IF ok THEN [system EXCEPT !.rules = @ \ {Newest(rules)}] ELSE system
          /\ stuck' = (stuck \/ ~ok) /\ UNCHANGED <<step, installed>>
       \/ /\ rules = <<>> /\ installed # <<>> /\ installed' = Earlier(installed)
          /\ system' = IF ok THEN [system EXCEPT !.routes = @ \ {Newest(installed)}] ELSE system
          /\ stuck' = (stuck \/ ~ok) /\ UNCHANGED <<step, rules>>
       \/ /\ rules = <<>> /\ installed = <<>> /\ step' = "gone"
          /\ UNCHANGED <<installed, system, rules, stuck>>
  /\ UNCHANGED <<tunCfg, original, todo, table>>

TunNext == Begin \/ Exclude \/ Include \/ Policy \/ Stop \/ Undo

-----------------------------------------------------------------------------
(* However far the installation came, once it is undone the system has the *)
(* routes and rules it had before, those included that an earlier run left *)
(* behind, unless a deletion was refused.                                  *)
RoutesRestored == step = "gone" /\ ~stuck => system = original
=============================================================================
