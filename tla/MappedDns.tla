----------------------------- MODULE MappedDns -----------------------------
(***************************************************************************)
(* The mapped DNS of the tunnel (hev-mapped-dns.c): a name that is asked   *)
(* for is given an index, the host part of the address in the answer, and  *)
(* a later session to that address is turned back into the name.  There    *)
(* are Max indexes; the name used longest ago gives its index up.  The     *)
(* list of nodes is kept as what comes behind each node.  One thread calls *)
(* everything, so a request is answered without an interruption.           *)
(***************************************************************************)
EXTENDS Naturals, FiniteSets

CONSTANTS Names, NoName,
          Max,          \* self->max, the configured cache size
          MaxQuestions  \* questions in a request (at most 32 in the code)

\* A request never asks for more names than there are indexes.
ASSUME DnsAssumption == /\ IsFiniteSet(Names) /\ NoName \notin Names
                        /\ Max \in Nat \ {0} /\ MaxQuestions \in Nat
                        /\ MaxQuestions <= Max

VARIABLES
  use,      \* self->use: indexes given so far
  idx,      \* node->idx of the node of a name, or NoIdx
  later,    \* self->list: the names behind a node
  records,  \* self->records: the name at an index
  open,     \* hev_mapped_dns_handle: a request is being answered
  asked,    \* its questions so far
  answers,  \* and the answers to them: a name with its index
  others    \* history: the other names used since a name was last used

cache == <<use, idx, later, records, others>>
request == <<open, asked, answers>>
vars == <<cache, request>>

NoIdx == Max
Nodes == {n \in Names : idx[n] # NoIdx}

Init == /\ use = 0
        /\ idx = [n \in Names |-> NoIdx]
        /\ later = [n \in Names |-> {}]
        /\ records = [i \in 0..(Max - 1) |-> NoName]
        /\ open = FALSE /\ asked = 0 /\ answers = {}
        /\ others = [n \in Names |-> {}]

-----------------------------------------------------------------------------
\* hev_list_del and hev_list_add_tail of a node that may be new.
AtTail(n) == [m \in Names |-> IF m = n THEN {}
                              ELSE IF m \in Nodes THEN later[m] \cup {n} ELSE {}]

\* The name is used: it has been, and every other name has one more since.
Used(n) == others' = [m \in Names |-> IF m = n THEN {} ELSE others[m] \cup {n}]

\* mutant: hev_list_last instead of hev_list_first
LastOf(f) == f \in Nodes /\ later[f] = {}

\* The node at the head of the list.
First(f) == f \in Nodes /\ later[f] = Nodes \ {f}

\* A name that has a node moves to the tail of the list.
Hit(n) == /\ n \in Nodes
          /\ later' = AtTail(n)
          /\ UNCHANGED <<use, idx, records>>

\* A new name takes the next index ...
Grow(n) == /\ n \notin Nodes /\ use < Max
           /\ later' = AtTail(n)
           /\ use' = use + 1
           /\ idx' = [idx EXCEPT ![n] = use]
           /\ records' = [records EXCEPT ![use] = n]

\* mutant: the node that gives up its index stays in the tree
ReplaceKeepsNode(n) ==
  /\ n \notin Nodes /\ use = Max
  /\ \E f \in Names :
       /\ First(f)
       /\ later' = [AtTail(n) EXCEPT ![f] = {}]
       /\ idx' = [idx EXCEPT ![n] = idx[f]]
       /\ records' = [records EXCEPT ![idx[f]] = n]
  /\ UNCHANGED use

\* ... or, once all are given, that of the node at the head of the list, which
\* leaves the tree and the list.
Replace(n) ==
  /\ n \notin Nodes /\ use = Max
  /\ \E f \in Names :
       /\ First(f)
       /\ later' = [m \in Names |-> IF m = f THEN {} ELSE AtTail(n)[m] \ {f}]
       /\ idx' = [idx EXCEPT ![n] = idx[f], ![f] = NoIdx]
       /\ records' = [records EXCEPT ![idx[f]] = n]
  /\ UNCHANGED use

\* hev_mapped_dns_find
Find(n) == (Hit(n) \/ Grow(n) \/ Replace(n)) /\ Used(n)

-----------------------------------------------------------------------------
\* hev_mapped_dns_handle: a request arrives,
HandleBegin == /\ ~open
               /\ open' = TRUE /\ asked' = 0 /\ answers' = {}
               /\ UNCHANGED cache

\* asks for the address of a name,
HandleName(n) ==
  /\ open /\ asked < MaxQuestions
  /\ Find(n)
  /\ asked' = asked + 1 /\ answers' = answers \cup {<<n, idx'[n]>>}
  /\ UNCHANGED open

\* or for something else, or no memory is left for the node,
HandleOther ==
  /\ open /\ asked < MaxQuestions
  /\ asked' = asked + 1
  /\ UNCHANGED <<open, answers, cache>>

\* and is answered, or is cut short: malformed, or too long for the answers.
HandleEnd == /\ open
             /\ open' = FALSE /\ asked' = 0 /\ answers' = {}
             /\ UNCHANGED cache

\* mutant: the session finds the name and leaves the list alone
LookupUntouched(i) ==
  /\ ~open /\ i < Max /\ records[i] # NoName
  /\ Used(records[i])
  /\ UNCHANGED <<use, idx, later, records, request>>

\* hev_mapped_dns_lookup: a session to the address with this host part.  (An
\* index not given yet, or beyond Max, finds nothing and changes nothing.)
Lookup(i) ==
  /\ ~open /\ i < Max /\ records[i] # NoName
  /\ later' = AtTail(records[i])
  /\ Used(records[i])
  /\ UNCHANGED <<use, idx, records, request>>

Next == \/ HandleBegin \/ HandleOther \/ HandleEnd
        \/ \E n \in Names : HandleName(n)
        \/ \E i \in 0..(Max - 1) : Lookup(i)

Spec == Init /\ [][Next]_vars

-----------------------------------------------------------------------------
(* Properties *)

TypeOK ==
  /\ use \in 0..Max
  /\ idx \in [Names -> 0..Max]
  /\ later \in [Names -> SUBSET Names]
  /\ records \in [0..(Max - 1) -> Names \cup {NoName}]
  /\ open \in BOOLEAN /\ asked \in 0..MaxQuestions /\ answers \subseteq Names \X (0..Max)
  /\ others \in [Names -> SUBSET Names]

\* Tree and records are inverse to each other: an index is given exactly below
\* use, to the node that has it (hev-mapped-dns.c:135-151).
RecordsMatch ==
  /\ \A i \in 0..(Max - 1) :
       IF i < use THEN records[i] \in Names /\ idx[records[i]] = i
                  ELSE records[i] = NoName
  /\ \A n \in Nodes : idx[n] < use /\ records[idx[n]] = n
  /\ Cardinality(Nodes) = use

\* The list holds exactly the nodes of the tree, each once, in the order of
\* their last use (hev-mapped-dns.c:121-122, 133, 145-146, 275-276).
ListInOrder ==
  /\ \A n \in Nodes : later[n] \subseteq Nodes \ {n} /\ others[n] = later[n]
  /\ \A n \in Names \ Nodes : later[n] = {}
  /\ \A m, n \in Nodes : m # n => (m \in later[n] <=> n \notin later[m])

DnsInv == TypeOK /\ RecordsMatch /\ ListInOrder

\* An answer that is about to be sent gives every name the address that leads
\* to it: no question of a request takes the index of an earlier one
\* (hev-mapped-dns.c:208-239, 252-255).
AnswersHold ==
  \A a \in answers : a[2] < Max /\ records[a[2]] = a[1]

\* The address of a name leads to it for as long as fewer than Max other names
\* have been asked for or connected to since it was
\* (hev-mapped-dns.c:121-122, 141-147, 275-276).
NameKept ==
  [][\A n \in Nodes : Cardinality(others'[n]) < Max
       => idx'[n] = idx[n] /\ records'[idx[n]] = n]_vars
=============================================================================
