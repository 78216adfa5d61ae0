------------------------------- MODULE Router -------------------------------
(***************************************************************************)
(* wfrest's router: the route tree (RouteTable), the registration of       *)
(* handlers (Router::handle), blueprints merged into it                    *)
(* (BluePrint::add_blueprint, HttpServer::Static) and the lookup of a      *)
(* request (RouteTableNode::find, Router::call).                           *)
(*                                                                         *)
(* A path is the sequence of the segments between its slashes; a node of   *)
(* the tree is the path of segments that leads to it.  "/" is registered   *)
(* as a child named Slash, and asked for as one empty segment.  Routes are *)
(* registered before the server starts; Router::call is const, so the      *)
(* properties range over all requests in every reachable table.            *)
(***************************************************************************)
EXTENDS Integers, Sequences, FiniteSets, SequencesExt

CONSTANTS SegOrder,      \* segment names in the order of std::map
          Params,        \* segments {name}
          NameOf,        \* the name between the braces
          Stars,         \* segments that end in *
          AnyStar,       \* the segment *
          StartsWith,    \* pairs <<segment, star>>: the prefix matches
          Slash, Empty,  \* the child that stores "/", the empty segment
          Verbs,         \* request methods with handlers, ANY included
          Patterns,      \* routes a program may register
          BluePatterns,  \* routes a program may put in its blueprint
          UrlPrefixes,   \* prefixes a blueprint may be registered under
          Paths,         \* requested paths, without the last slash
          MaxRoutes      \* bound: number of registrations

Segs == Range(SegOrder)
NoNode == <<"no node">>

ASSUME SegsAssumption ==
    /\ SegOrder \in Seq(STRING)
    /\ Params \cup Stars \cup {AnyStar, Slash, Empty} \subseteq Segs
    /\ Params \cap Stars = {}
    /\ AnyStar \in Stars
    /\ {Slash, Empty} \cap (Params \cup Stars) = {}
    /\ Slash # Empty
    /\ StartsWith \subseteq Segs \X Stars
    /\ NameOf \in [Params -> STRING]
    /\ NoNode \notin Seq(Segs)
ASSUME AnyStarAssumption == \A s \in Segs : <<s, AnyStar>> \in StartsWith
(* No segment is a slash.  No blueprint has the route "//": merged under a *)
(* prefix it would share a node with "/".                                  *)
ASSUME PathsAssumption ==
    /\ Patterns \cup BluePatterns \cup UrlPrefixes \cup Paths
           \subseteq Seq(Segs \ {Slash})
    /\ <<Empty>> \notin BluePatterns
    /\ \A R \in Paths : R # << >> /\ Range(R) \cap (Params \cup Stars) = {}
ASSUME MaxRoutesAssumption == MaxRoutes \in Nat

VARIABLES server,      \* the server's table
          blue,        \* the table of the program's blueprint
          count,       \* number of registrations
          wanted,      \* ghost: the handlers the program gave the server
          wantedBlue,  \* ghost: those it gave its blueprint
          orderly      \* ghost: no call was one of those that lose handlers

routerVars == <<server, blue, count, wanted, wantedBlue, orderly>>

(* A table: the nodes of the tree and the handlers bound to them.  A       *)
(* handler is named by the table and the route it was registered with.     *)
NewTable == [nodes |-> {<< >>}, bound |-> {}]

VerbsAt(t, n) == {b.verb : b \in {x \in t.bound : x.node = n}}
Children(t, n) == {s \in Segs : Append(n, s) \in t.nodes}
Leaf(t, n) == Children(t, n) = {}

RouterInit ==
    /\ server = NewTable
    /\ blue = NewTable
    /\ count = 0
    /\ wanted = {} /\ wantedBlue = {}
    /\ orderly = TRUE

-----------------------------------------------------------------------------
(* Registration                                                            *)

(* The nodes find_or_create adds on the way to the end of a path.          *)
Make(t, path) ==
    [t EXCEPT !.nodes =
        @ \cup IF path = << >> THEN {<<Slash>>} ELSE Prefixes(path)]

(* The node find_or_create returns.  For "/" it is a new node every time,  *)
(* which the tree does not hold if it has that child already: whatever is  *)
(* bound to it then is lost.                                               *)
Target(t, path) ==
    IF path # << >> THEN path
    ELSE IF <<Slash>> \in t.nodes THEN NoNode ELSE <<Slash>>

(* Router::handle: the first handler of a verb stays.                      *)
handle(t, from, path, verb) ==
    LET n == Target(t, path)
    IN  IF n = NoNode \/ verb \in VerbsAt(t, n)
        THEN Make(t, path)
        ELSE [Make(t, path) EXCEPT !.bound =
                 @ \cup {[node |-> n, verb |-> verb,
                          handler |-> [from |-> from, route |-> path]]}]

(* Mutant: the recursion goes one level down.                              *)
LeavesBelowRoot(t) == {n \in t.nodes : Leaf(t, n) /\ Len(n) <= 1}

(* RouteTableNode::all_routes visits the leaves only.                      *)
Leaves(t) == {n \in t.nodes : Leaf(t, n)}

(* The path add_blueprint builds for a leaf: "/" becomes an empty segment  *)
(* after the prefix.                                                       *)
Joined(prefix, leaf) ==
    prefix \o IF leaf = <<Slash>> THEN <<Empty>> ELSE leaf

(* BluePrint::add_blueprint: each leaf replaces all that was bound to its  *)
(* node.                                                                   *)
add_blueprint(t, b, prefix) ==
    LET at(leaf) == Target(t, Joined(prefix, leaf))
        moved == {[node |-> at(x.node), verb |-> x.verb, handler |-> x.handler] :
                      x \in {y \in b.bound :
                                y.node \in Leaves(b) /\ at(y.node) # NoNode}}
    IN  [nodes |-> t.nodes \cup
                   UNION {Make(t, Joined(prefix, l)).nodes : l \in Leaves(b)},
         bound |-> {x \in t.bound : x.node \notin {at(l) : l \in Leaves(b)}}
                   \cup moved]

(* The blueprint of HttpServer::serve_static.                              *)
StaticBlue == handle(NewTable, "static", <<AnyStar>>, "GET")

(* What the program asks for, told without the tree: each handler at the   *)
(* path it was given, under the prefix if it is in a blueprint; the first  *)
(* one for a path and a verb counts.                                       *)
Wanted(node, verb, from, route) ==
    [node |-> node, verb |-> verb, handler |-> [from |-> from, route |-> route]]
Place(path) == IF path = << >> THEN <<Slash>> ELSE path
Under(prefix, node) == prefix \o IF node = <<Slash>> THEN <<Empty>> ELSE node
WantedVerbs(w, node) == {x.verb : x \in {y \in w : y.node = node}}

With(w, from, path, verb) ==
    IF verb \in WantedVerbs(w, Place(path)) THEN w
    ELSE w \cup {Wanted(Place(path), verb, from, path)}
Merged(w, b, prefix) ==
    w \cup {[node |-> Under(prefix, x.node), verb |-> x.verb,
             handler |-> x.handler] : x \in b}
StaticWanted == {Wanted(<<AnyStar>>, "GET", "static", <<AnyStar>>)}

(* The calls after which the tree does not hold all of it: a second verb   *)
(* for "/" (RouteTable.cc:22); and a merge of a blueprint that is empty,   *)
(* that has a route below another of its routes (RouteTable.h:62), or that *)
(* has a route where the server has one already (BluePrint.cc:309).        *)
SlashAgain(w, path, verb) ==
    /\ path = << >>
    /\ WantedVerbs(w, <<Slash>>) # {}
    /\ verb \notin WantedVerbs(w, <<Slash>>)
MergeLoses(w, b, prefix) ==
    \/ b = {}
    \/ \E x, y \in b : IsStrictPrefix(x.node, y.node)
    \/ \E x \in w, y \in b : x.node = Under(prefix, y.node)

(* The ghosts, once such a call was made, say nothing any more.            *)
Want(loses, w, b) ==
    /\ orderly' = (orderly /\ ~loses)
    /\ wanted' = IF orderly' THEN w ELSE {}
    /\ wantedBlue' = IF orderly' THEN b ELSE {}

HandleServer(path, verb) ==
    /\ server' = handle(server, "server", path, verb)
    /\ Want(SlashAgain(wanted, path, verb),
            With(wanted, "server", path, verb), wantedBlue)
    /\ UNCHANGED blue

HandleBlue(path, verb) ==
    /\ blue' = handle(blue, "blue", path, verb)
    /\ Want(SlashAgain(wantedBlue, path, verb),
            wanted, With(wantedBlue, "blue", path, verb))
    /\ UNCHANGED server

register_blueprint(prefix) ==
    /\ server' = add_blueprint(server, blue, prefix)
    /\ Want(MergeLoses(wanted, wantedBlue, prefix),
            Merged(wanted, wantedBlue, prefix), wantedBlue)
    /\ UNCHANGED blue

Static(prefix) ==
    /\ server' = add_blueprint(server, StaticBlue, prefix)
    /\ Want(MergeLoses(wanted, StaticWanted, prefix),
            Merged(wanted, StaticWanted, prefix), wantedBlue)
    /\ UNCHANGED blue

RouterNext ==
    /\ count < MaxRoutes
    /\ count' = count + 1
    /\ \/ \E p \in Patterns, v \in Verbs : HandleServer(p, v)
       \/ \E p \in BluePatterns, v \in Verbs : HandleBlue(p, v)
       \/ \E p \in UrlPrefixes : register_blueprint(p) \/ Static(p)

RouterSpec == RouterInit /\ [][RouterNext]_routerVars

-----------------------------------------------------------------------------
(* Lookup                                                                  *)

(* Mutant: a node with children is never the answer.                       *)
FoundAtLeaf(t, n, R) == Leaf(t, n)

(* The first test of find.  A node without children answers whatever is    *)
(* left of the path.                                                       *)
Found(t, n, R) == (Len(n) = Len(R) /\ VerbsAt(t, n) # {}) \/ Leaf(t, n)

(* Mutant: any star takes any segment.                                     *)
StarTakesAll(s, star) == TRUE

StarTakes(s, star) == <<s, star>> \in StartsWith

(* find goes on to the stars and parameters when the child of that very    *)
(* name is missing or does not lead to a route.                            *)
FallsThrough(t, m, r) == r.node = NoNode

(* The children of n that may stand for the segment s, and the first of    *)
(* them in the order of the map.                                           *)
Wild(t, n, s) ==
    {i \in 1 .. Len(SegOrder) :
        /\ SegOrder[i] \in Children(t, n)
        /\ \/ SegOrder[i] \in Params
           \/ SegOrder[i] \in Stars /\ StarTakes(s, SegOrder[i])}
FirstWild(t, n, s) ==
    SegOrder[CHOOSE i \in Wild(t, n, s) : \A j \in Wild(t, n, s) : i <= j]

Hit(m, sets, match) == [node |-> m, sets |-> sets, match |-> match]

(* The result of RouteTableNode::find for the path R: the node, or NoNode  *)
(* for end(); the assignments to route_params in the order they are made,  *)
(* those of abandoned branches too; and route_match_path.  A node is       *)
(* reached with as many segments consumed as it has above it.              *)
find(t, R) ==
    LET f[n \in {m \in t.nodes : Len(m) <= Len(R)}] ==
        LET mid == R[Len(n) + 1]
            named == Append(n, mid)
            exact == IF named \in t.nodes THEN f[named]
                                          ELSE Hit(NoNode, << >>, << >>)
            first == FirstWild(t, n, mid)
            below == f[Append(n, first)]
        IN  IF Found(t, n, R) THEN Hit(n, << >>, << >>)
            ELSE IF Len(n) = Len(R)
            THEN Hit(IF AnyStar \in Children(t, n) THEN Append(n, AnyStar)
                                                   ELSE NoNode, << >>, << >>)
            ELSE IF n = << >> /\ R = <<Empty>> /\ <<Slash>> \in t.nodes
            THEN f[<<Slash>>]
            ELSE IF ~FallsThrough(t, named, exact) THEN exact
            ELSE IF Wild(t, n, mid) = {} THEN Hit(NoNode, exact.sets, << >>)
            ELSE IF first \in Stars
            THEN Hit(Append(n, first), exact.sets, SubSeq(R, Len(n) + 1, Len(R)))
            ELSE Hit(below.node,
                     exact.sets \o <<<<NameOf[first], mid>>>> \o below.sets,
                     below.match)
    IN  f[<< >>]

(* Mutant: the first value given to a name stays.                          *)
FirstValue(sets, name) ==
    sets[CHOOSE i \in 1 .. Len(sets) :
            /\ sets[i][1] = name
            /\ \A j \in 1 .. i - 1 : sets[j][1] # name][2]

(* route_params[name]: an assignment replaces an earlier one.              *)
param(sets, name) ==
    sets[CHOOSE i \in 1 .. Len(sets) :
            /\ sets[i][1] = name
            /\ \A j \in i + 1 .. Len(sets) : sets[j][1] # name][2]

(* Router::call: the status, and the handler that runs.                    *)
NoHandler == [from |-> "none", route |-> << >>]

call(t, verb, R) ==
    LET n == find(t, R).node
        v == IF verb \in VerbsAt(t, n) THEN verb ELSE "ANY"
    IN  IF n = NoNode
        THEN [status |-> "StatusRouteNotFound", handler |-> NoHandler]
        ELSE IF v \notin VerbsAt(t, n)
        THEN [status |-> "StatusRouteVerbNotImplment", handler |-> NoHandler]
        ELSE [status |-> "StatusOK",
              handler |-> (CHOOSE b \in t.bound : b.node = n /\ b.verb = v).handler]

-----------------------------------------------------------------------------
(* Properties                                                              *)

(* What a segment of a route stands for.                                   *)
SegMatches(p, s) ==
    \/ p = s
    \/ p \in Params
    \/ p \in Stars /\ <<s, p>> \in StartsWith

(* The route n matches the first segments of R.                            *)
MatchesFirst(n, R) ==
    /\ Len(n) <= Len(R)
    /\ \A i \in 1 .. Len(n) : SegMatches(n[i], R[i])

EndsInStar(n) == n # << >> /\ Last(n) \in Stars

(* A request is only ever given to a route that describes it: segment by   *)
(* segment; beyond its end only if the route ends in * or no longer route  *)
(* begins with it; and short of its end only if all that is missing is *.  *)
RoutedByPattern ==
    \A R \in Paths :
        LET n == find(server, R).node
        IN  n # NoNode =>
            \/ n = <<Slash>> /\ R = <<Empty>>
            \/ /\ MatchesFirst(n, R)
               /\ Len(n) < Len(R) => EndsInStar(n) \/ Leaf(server, n)
            \/ /\ n # << >> /\ Last(n) = AnyStar
               /\ Len(n) = Len(R) + 1 /\ MatchesFirst(Front(n), R)

(* "Exact routes are resolved before param routes, regardless of the order *)
(* they were defined" (docs/param_in_path.md): a handler registered under  *)
(* a path of plain segments answers that path, whatever parameters, stars, *)
(* longer routes, blueprints and static trees have been registered before  *)
(* or after it; provided the program made none of the calls that lose      *)
(* handlers.  (The "/" of a blueprint is not a plain segment: it is        *)
(* registered as prefix//.)                                                *)
ExactFirst ==
    orderly => \A b \in wanted :
        Range(b.node) \cap (Params \cup Stars \cup {Empty}) = {}
            => call(server, b.verb, IF b.node = <<Slash>> THEN <<Empty>>
                                    ELSE b.node).handler = b.handler

NamesOnce(n) ==
    \A i, j \in 1 .. Len(n) :
        n[i] \in Params /\ n[j] \in Params /\ NameOf[n[i]] = NameOf[n[j]] => i = j

(* The handler sees, for every parameter its route names, the segment the  *)
(* request has in that place, although the branches find abandons have     *)
(* written to the same map; provided no route uses a name twice.           *)
ParamsRight ==
    (\A n \in server.nodes : NamesOnce(n)) =>
    \A R \in Paths :
        LET r == find(server, R)
        IN  r.node # NoNode =>
            \A i \in 1 .. Len(r.node) :
                r.node[i] \in Params => param(r.sets, NameOf[r.node[i]]) = R[i]

(* Where find has a choice between two of {name} and * it takes the first  *)
(* and does not come back.                                                 *)
Competing(n) ==
    \E c, d \in Children(server, n) \cap (Params \cup Stars) : c # d

(* The route n describes the whole of R.                                   *)
Describes(n, R) ==
    \/ n = <<Slash>> /\ R = <<Empty>>
    \/ /\ n # << >> /\ Range(Front(n)) \cap Stars = {}
       /\ \/ MatchesFirst(n, R) /\ (Len(n) = Len(R) \/ EndsInStar(n))
          \/ /\ Last(n) = AnyStar /\ Len(n) = Len(R) + 1
             /\ MatchesFirst(Front(n), R)

(* "Routes starting with /user/groups are never interpreted as             *)
(* /user/{name}/... routes" (docs/param_in_path.md): n may claim R only if *)
(* no route has R's own segment where n has {name} or *.                   *)
MayClaim(n, R) ==
    \A i \in 1 .. Len(n) :
        n[i] \in Params \cup Stars /\ i <= Len(R)
            => \A x \in wanted :
                   ~IsPrefix(Append(SubSeq(n, 1, i - 1), R[i]), x.node)

(* 404 is sent only if no route the program registered describes the       *)
(* request and may claim it; provided the program made none of the calls   *)
(* that lose handlers, and {name} and * routes do not compete for the same *)
(* segment.                                                                *)
NotFoundJustified ==
    orderly /\ (\A n \in server.nodes : ~Competing(n)) =>
    \A R \in Paths :
        find(server, R).node = NoNode
            => \A b \in wanted : ~(Describes(b.node, R) /\ MayClaim(b.node, R))
=============================================================================
