------------------------------ MODULE LineConfig ------------------------------
(***************************************************************************)
(* From a Zabbix configuration to the lines it describes: fetchLines of     *)
(* syncer/syncer.go with buildTemplateChain and mergeMacros.                *)
(*                                                                          *)
(* A host is a line.  Its settings are macros, set on the host, on the      *)
(* templates it is linked to, on their parents, or globally.                *)
(***************************************************************************)
EXTENDS Naturals, Sequences, FiniteSets

CONSTANTS
  Line,             \* the IPs of the leased lines
  Router,           \* the IPs of the edge routers
  NoRouter,         \* the empty IP, of a line whose router macro is not set
  Interval,         \* the probing intervals
  DefaultInterval,
  Malformed,        \* an interval macro that is no natural number
  Unset,            \* a macro that is not set at some level
  Template,
  Linked,           \* Linked[l]: the templates host l is linked to, in order
  Parents           \* Parents[t]: the templates template t is linked to

(* A listed host is linked to some template: mergeMacros indexes the first  *)
(* node of an empty chain.                                                  *)
ASSUME LineConfigAssumption ==
  /\ IsFiniteSet(Line)
  /\ IsFiniteSet(Template)
  /\ NoRouter \in Router
  /\ DefaultInterval \in Interval
  /\ Malformed \notin Interval
  /\ Unset \notin Router \cup Interval \cup {Malformed}
  /\ Linked \in [Line -> Seq(Template) \ {<< >>}]
  /\ Parents \in [Template -> Seq(Template)]

Macro == {"router", "interval"}

Macros == [router : Router \cup {Unset}, interval : Interval \cup {Malformed, Unset}]
NoMacros == [m \in Macro |-> Unset]

(* What the API answers: the enabled hosts of the proxy with the line tag,  *)
(* the macros at each level, and the templates it fails to return.          *)
Configuration ==
  [listed : SUBSET Line, global : Macros, template : [Template -> Macros],
   host : [Line -> Macros], failing : SUBSET Template]

Nothing ==
  [listed |-> {}, global |-> NoMacros, template |-> [t \in Template |-> NoMacros],
   host |-> [l \in Line |-> NoMacros], failing |-> {}]

Setting == [router : Router, interval : Interval]
LineMap == UNION {[S -> Setting] : S \in SUBSET Line}

-------------------------------------------------------------------------------
(* The template chain. *)

Node == [id : Template, depth : Nat]

At(ids, d) == [k \in DOMAIN ids |-> [id |-> ids[k], depth |-> d]]

\* The walk up the links: the templates still to visit, the next one first,
\* and the chain so far.
Walk == [todo : Seq(Node), chain : Seq(Node)]

\* A template met again is skipped, whatever its depth the second time.
visit(w) ==
  LET t == Head(w.todo) IN
  IF \E k \in DOMAIN w.chain : w.chain[k].id = t.id
    THEN [w EXCEPT !.todo = Tail(@)]
    ELSE [todo |-> At(Parents[t.id], t.depth + 1) \o Tail(w.todo),
          chain |-> Append(w.chain, t)]

build[w \in Walk] == IF w.todo = << >> THEN w.chain ELSE build[visit(w)]

buildTemplateChain(l) == build[[todo |-> At(Linked[l], 1), chain |-> << >>]]

(* Fault: the nearest templates first, so that the farthest win. *)
insertNearest(q, n) ==
  LET p == CHOOSE p \in 0..Len(q) : \A k \in DOMAIN q : k <= p <=> q[k].depth <= n.depth
  IN  SubSeq(q, 1, p) \o <<n>> \o SubSeq(q, p + 1, Len(q))

\* A node goes behind the nodes that are at least as deep.
insertDeepest(q, n) ==
  LET p == CHOOSE p \in 0..Len(q) : \A k \in DOMAIN q : k <= p <=> q[k].depth >= n.depth
  IN  SubSeq(q, 1, p) \o <<n>> \o SubSeq(q, p + 1, Len(q))

\* sort.Slice by falling depth, an insertion sort for the short chains there
\* are (up to 12 nodes).
deepestFirst(chain) ==
  LET sorted[k \in 0..Len(chain)] ==
        IF k = 0 THEN << >> ELSE insertDeepest(sorted[k - 1], chain[k])
  IN  sorted[Len(chain)]

\* The maps in the order in which mergeMacros writes them.
Layers(z, l) ==
  LET chain == deepestFirst(buildTemplateChain(l))
  IN  <<z.global>> \o [k \in DOMAIN chain |-> z.template[chain[k].id]] \o <<z.host[l]>>

\* A later value overwrites an earlier one.
mergeMacros(z, l) ==
  LET layers == Layers(z, l)
      finalMacros[k \in 0..Len(layers)] ==
        IF k = 0 THEN NoMacros
        ELSE [m \in Macro |-> IF layers[k][m] = Unset THEN finalMacros[k - 1][m]
                              ELSE layers[k][m]]
  IN  finalMacros[Len(layers)]

parseDurationFromMacro(v) == IF v \in Interval THEN v ELSE DefaultInterval
routerOf(v) == IF v \in Router THEN v ELSE NoRouter

\* A host is skipped when one of its templates cannot be read.
Readable(z) ==
  {l \in z.listed :
     \A k \in DOMAIN buildTemplateChain(l) : buildTemplateChain(l)[k].id \notin z.failing}

fetchLines(z) ==
  [l \in Readable(z) |->
     LET macros == mergeMacros(z, l)
     IN  [router |-> routerOf(macros["router"]),
          interval |-> parseDurationFromMacro(macros["interval"])]]

-------------------------------------------------------------------------------
(* What the comment above fetchLines says the settings are. *)

\* The templates d links above host l.
Above(l, d) ==
  LET up[n \in Nat] ==
        IF n <= 1 THEN {Linked[l][k] : k \in DOMAIN Linked[l]}
        ELSE UNION {{Parents[t][k] : k \in DOMAIN Parents[t]} : t \in up[n - 1]}
  IN  up[d]

(* Zabbix refuses a link by which a template would be linked to a host      *)
(* twice, so no template is above a host at two distances.                  *)
ASSUME LevelsAssumption ==
  \A l \in Line : \A d, e \in 1..Cardinality(Template) :
    Above(l, d) \cap Above(l, e) # {} => d = e

\* The values of macro m at level d of host l: 0 is the host itself.
SetAt(z, l, m, d) ==
  (IF d = 0 THEN {z.host[l][m]} ELSE {z.template[t][m] : t \in Above(l, d)}) \ {Unset}

\* The values of the nearest level that sets it, or the global one.
Effective(z, l, m) ==
  LET levels == {d \in 0..Cardinality(Template) : SetAt(z, l, m, d) # {}}
  IN  IF levels = {} THEN {z.global[m]}
      ELSE SetAt(z, l, m, CHOOSE d \in levels : \A e \in levels : d <= e)

===============================================================================
