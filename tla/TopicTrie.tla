---------------------------- MODULE TopicTrie ----------------------------
(***************************************************************************)
(* Trie and NodeTrie: the tree of characters that finds the subscribers of *)
(* a topic.  The worker alone uses it, one operation at a time.            *)
(*                                                                         *)
(* A character is its code; a filter or a topic is a sequence of them.     *)
(* The heap is the sequence of the NodeTrie objects in the order in which  *)
(* they were made, a pointer the place of an object in it.  A level of the *)
(* tree is a head, which stands for no character until it gets the end     *)
(* mark, and the ordered list of its brothers, one for each character that *)
(* may follow; the son of a brother is the head of the level below it.     *)
(***************************************************************************)
EXTENDS Naturals, FiniteSets, FiniteSetsExt, SequencesExt, Functions

CONSTANTS
    Clients,
    FirstNames,     \* the names the first level of a topic may have,
    LaterNames,     \* and those of the levels behind it, which may be empty
    MaxLevels,      \* bound: levels of a topic or a filter
    MaxFilters      \* bound: filters subscribed to in a behaviour

NumberSign == 35    \* #
EndMark == 36       \* $
Plus == 43          \* +
Slash == 47         \* /

\* None of the characters of a name has a meaning.
ASSUME TrieAssumption ==
    /\ <<>> \notin FirstNames
    /\ MaxLevels \in Nat
    /\ FirstNames \cup LaterNames \subseteq Seq(Nat \ {0, NumberSign, EndMark, Plus, Slash})

NULL == 0
Root == 1

VARIABLES
    heap,
    subscriptions       \* history: pairs of a live client and a filter it asked for

vars == <<heap, subscriptions>>

\* The map of clients is empty where the code has none: it is made with the end mark.
NewNode == [character |-> 0, bro |-> NULL, son |-> NULL, subscribedClients |-> {}]

Init == heap = <<NewNode>> /\ subscriptions = {}

-----------------------------------------------------------------------------
(* The list of a level.  h is the heap when the code runs.                 *)

\* The last node from this one on that comes before the character.
Before(h, node, char) ==
    LET From[n \in DOMAIN h] ==
          LET bro == h[n].bro IN
          IF bro # NULL /\ h[bro].character < char THEN From[bro] ELSE n
    IN  From[node]

\* The brother with this character, if there is one.
Brother(h, node, char) ==
    LET bro == h[Before(h, node, char)].bro IN
    IF bro # NULL /\ h[bro].character = char THEN bro ELSE NULL

\* The head of the level below the character; the head itself for the end mark.
Find(h, node, char) ==
    IF char = EndMark \/ h[node].character = char THEN h[node].son
    ELSE LET bro == Brother(h, node, char) IN IF bro = NULL THEN NULL ELSE h[bro].son

\* Mutant: the new brother goes in front of the others.
InsertFirst(h, node, char, son) ==
    LET new == [NewNode EXCEPT !.character = char, !.son = son, !.bro = h[node].bro] IN
    IF char = EndMark THEN [h EXCEPT ![node].character = EndMark, ![node].son = son]
    ELSE [Append(h, new) EXCEPT ![node].bro = Len(h) + 1]

Insert(h, node, char, son) ==
    LET prev == Before(h, node, char)
        bro == Brother(h, node, char)
        new == [NewNode EXCEPT !.character = char, !.son = son, !.bro = h[prev].bro]
    IN  IF char = EndMark THEN [h EXCEPT ![node].character = EndMark, ![node].son = son]
        ELSE IF bro # NULL THEN [h EXCEPT ![bro].son = son]
        ELSE [Append(h, new) EXCEPT ![prev].bro = Len(h) + 1]

\* The son is made before the brother that leads to it.
TakeNew(h, node, char) == Insert(Append(h, NewNode), node, char, Len(h) + 1)

\* ~NodeTrie: the nodes the destructor of this one deletes, in order.
Deleted(h, node) ==
    LET By[n \in 0..Len(h)] ==
          IF n = NULL THEN <<>>
          ELSE <<n>> \o By[h[n].bro] \o (IF h[n].son = n THEN <<>> ELSE By[h[n].son])
    IN  By[node]

-----------------------------------------------------------------------------
(* Topics and filters by levels, and as the characters of a packet.        *)

WildCards == {<<Plus>>, <<NumberSign>>}

LevelsOver(wildCards) ==
    {levels \in UNION {[1..n -> FirstNames \cup LaterNames \cup wildCards] : n \in 1..MaxLevels} :
        /\ levels[1] \in FirstNames \cup wildCards
        /\ \A i \in 2..Len(levels) : levels[i] \in LaterNames \cup wildCards}

Topics == LevelsOver({})

Filters ==
    {f \in LevelsOver(WildCards) : \A i \in DOMAIN f : f[i] = <<NumberSign>> => i = Len(f)}

Chars(levels) ==
    LET Upto[i \in 1..Len(levels)] ==
          IF i = 1 THEN levels[1] ELSE Upto[i - 1] \o <<Slash>> \o levels[i]
    IN  Upto[Len(levels)]

-----------------------------------------------------------------------------
(* Subscribing.                                                            *)

\* Mutant: a level is made for a character that has one.
AlwaysDown(at, char) ==
    LET h == TakeNew(at.heap, at.node, char) IN [heap |-> h, node |-> Find(h, at.node, char)]

\* One character down, making the level if it is not there.
Down(at, char) ==
    LET h == IF Find(at.heap, at.node, char) # NULL THEN at.heap
             ELSE TakeNew(at.heap, at.node, char)
    IN  [heap |-> h, node |-> Find(h, at.node, char)]

\* Trie::insert: where the filter ends, and the heap when its end mark is there.
InsertFilter(filter) ==
    LET At[i \in 0..Len(filter)] ==
          IF i = 0 THEN [heap |-> heap, node |-> Root] ELSE Down(At[i - 1], filter[i])
        end == At[Len(filter)]
    IN  IF Find(end.heap, end.node, EndMark) # NULL THEN end
        ELSE [end EXCEPT !.heap = Insert(end.heap, end.node, EndMark, end.node)]

Ends(h) == {n \in DOMAIN h : h[n].character = EndMark}

\* Trie::find.
Has(filter) ==
    LET At[i \in 0..Len(filter)] ==
          IF i = 0 THEN Root
          ELSE LET node == At[i - 1] IN
               IF node = NULL THEN NULL ELSE Find(heap, node, filter[i])
        end == At[Len(filter)]
    IN  end # NULL /\ Find(heap, end, EndMark) # NULL

Subscribe(client, levels) ==
    LET filter == Chars(levels)
        at == InsertFilter(filter)
    IN  /\ Has(filter) \/ Cardinality(Ends(heap)) < MaxFilters
        /\ heap' = [at.heap EXCEPT ![at.node].subscribedClients = @ \cup {client}]
        /\ subscriptions' = subscriptions \cup {<<client, levels>>}

\* ~MqttClient: the client leaves all its nodes.  The nodes stay.
Unsubscribe(client) ==
    /\ heap' = [n \in DOMAIN heap |-> [heap[n] EXCEPT !.subscribedClients = @ \ {client}]]
    /\ subscriptions' = {s \in subscriptions : s[1] # client}

Next ==
    \/ \E client \in Clients, levels \in Filters : Subscribe(client, levels)
    \/ \E client \in Clients : Unsubscribe(client)

Spec == Init /\ [][Next]_vars

-----------------------------------------------------------------------------
(* Looking up a topic, which ends with its end mark.  A visit is a node,  *)
(* an index, and whether findSubscribedMqttClients is called there or its  *)
(* loop goes on.  It is called at the index where a level starts: the      *)
(* first character of the topic, or the / in front of the level.           *)

IndexOf(topic, char, from) ==
    LET at == {i \in from..Len(topic) : topic[i] = char} IN IF at = {} THEN 0 ELSE Min(at)

NoVisit == <<NULL, 1, FALSE>>

\* Mutant: the search for the next level starts at the / of this one.
PlusWildCardAtSlash(topic, node, i) ==
    LET plus == Find(heap, node, Plus)
        next == IndexOf(topic, Slash, i)
    IN  IF plus = NULL THEN NoVisit
        ELSE IF next # 0 THEN <<plus, next, TRUE>>
        ELSE <<Find(heap, plus, EndMark), Len(topic), TRUE>>

\* "+" stands for the characters up to the next /, or for the last level.
PlusWildCard(topic, node, i) ==
    LET plus == Find(heap, node, Plus)
        next == IndexOf(topic, Slash, i + 1)
    IN  IF plus = NULL THEN NoVisit
        ELSE IF next # 0 THEN <<plus, next, TRUE>>
        ELSE <<Find(heap, plus, EndMark), Len(topic), TRUE>>

\* "#" stands for the rest of the topic.
NumberSignWildCard(topic, node) == <<Find(heap, node, NumberSign), Len(topic), TRUE>>

\* Mutant: the next level is explored from its first character.
NextLevelFromNext(topic, node, i) ==
    IF topic[i] = Slash THEN <<Find(heap, node, Slash), i + 1, TRUE>> ELSE NoVisit

\* Behind a / a new level is explored for wildcards.
NextLevel(topic, node, i) ==
    IF topic[i] = Slash THEN <<Find(heap, node, Slash), i, TRUE>> ELSE NoVisit

\* Down the tree one character at a time.
NextCharacter(topic, node, i) == <<Find(heap, node, topic[i]), i + 1, FALSE>>

\* For each visit the nodes whose clients are appended to the result, in this order.
FindSubscribed(topic) ==
    LET Found[visit \in (0..Len(heap)) \X (1..Len(topic)) \X BOOLEAN] ==
          LET node == visit[1]
              i == visit[2]
              wildCards == Found[PlusWildCard(topic, node, i)]
                               \o Found[NumberSignWildCard(topic, node)]
              mainBranch ==
                  IF topic[i] # EndMark
                  THEN Found[NextLevel(topic, node, i)] \o Found[NextCharacter(topic, node, i)]
                  ELSE IF i = Len(topic) /\ Find(heap, node, EndMark) # NULL THEN <<node>>
                  ELSE <<>>
          IN  IF node = NULL THEN <<>>
              ELSE IF visit[3] THEN wildCards \o mainBranch ELSE mainBranch
    IN  Found

GetSubscribed(topic) == FindSubscribed(Append(topic, EndMark))[<<Root, 1, TRUE>>]

-----------------------------------------------------------------------------
(* Properties.                                                             *)

\* Every level is an ordered list without repetitions, every brother leads to a level,
\* and a head is marked as an end exactly when it is its own son, as find returns it.
TypeOK ==
    /\ heap \in Seq([character : Nat, bro : 0..Len(heap), son : 0..Len(heap),
                     subscribedClients : SUBSET Clients])
    /\ \A n \in DOMAIN heap :
        LET bro == heap[n].bro IN
        /\ bro # NULL => /\ heap[bro].character \notin {0, EndMark}
                         /\ heap[n].character = EndMark \/ heap[n].character < heap[bro].character
        /\ heap[n].character = EndMark <=> heap[n].son = n
        /\ heap[n].character \notin {0, EndMark} => heap[n].son # NULL
        /\ heap[n].character # EndMark => heap[n].subscribedClients = {}
    /\ subscriptions \subseteq Clients \X Filters

\* The rule that the code implements, told level by level.  "#" stands for one or more
\* levels, where MQTT 3.1.1 has none or more.
Matches(filter, topic) ==
    LET fits(i) == filter[i] = <<Plus>> \/ filter[i] = topic[i] IN
    \/ Len(filter) = Len(topic) /\ \A i \in DOMAIN filter : fits(i)
    \/ /\ Last(filter) = <<NumberSign>> /\ Len(filter) <= Len(topic)
       /\ \A i \in 1..Len(filter) - 1 : fits(i)

\* The filter itself, and the filter without some of the empty levels inside it.
Readings(filter) ==
    LET From[i \in 1..Len(filter) + 1] ==
          IF i > Len(filter) THEN {<<>>}
          ELSE {<<filter[i]>> \o rest : rest \in From[i + 1]}
                 \cup (IF filter[i] = <<>> /\ i < Len(filter) THEN From[i + 1] ELSE {})
    IN  From[1]

\* A publication reaches the clients with a subscription that matches, and no other:
\* whatever else is in the tree, in whichever order it came, whoever has left since.
\* An empty level inside a filter may also stand for no level at all.
RoutesExactly ==
    \A topic \in Topics :
        UNION {heap[n].subscribedClients : n \in Range(GetSubscribed(Chars(topic)))}
            = {s[1] : s \in {p \in subscriptions :
                                \E reading \in Readings(p[2]) : Matches(reading, topic)}}

EmptyLevelIn(h) ==
    \E n \in DOMAIN h : Find(h, n, Slash) # NULL /\ Find(h, Find(h, n, Slash), Slash) # NULL

\* No filter is found along two branches: a client gets a publication as often as it
\* has filters that match it, as long as no filter has an empty level inside.
FoundOnce ==
    ~EmptyLevelIn(heap) => \A topic \in Topics : IsInjective(GetSubscribed(Chars(topic)))

\* ~Trie deletes the root, and the destructor follows both pointers of every node: it
\* reaches every node that was ever made, and none of them twice.
DeletedOnce ==
    LET order == Deleted(heap, Root) IN IsInjective(order) /\ Range(order) = DOMAIN heap

=============================================================================
