------------------------------ MODULE MemoryBlocks ------------------------------
(* Memory blocks of one agent: membership (block_graph.py), sealing, the hash chain  *)
(* and quarantine (block_chain.py) over the tables of blocks.py; beside them the      *)
(* calls that read a fragment and write the whole row back, and the maintenance        *)
(* passes that spare sealed blocks (block_membership.py).                              *)
(*                                                                                     *)
(* Every statement of a call is a transaction of its own and a step here: between two  *)
(* of them any other call may run.  A hash covers the ids and immutable fields of the   *)
(* members, so a content hash is the set of members it was computed from.  Edges of a   *)
(* block are added, read and hashed like its nodes and are left out.                    *)
(* (StoreProofs extends this module and others, so the names they would all have differ.) *)
EXTENDS Naturals, FiniteSets

CONSTANTS
    Blocks, Frags, Nodes,
    Callers,      \* threads, of any process
    Keepers,      \* the callers that seal, quarantine and release a block
    Maintainers,  \* the callers that run maintenance
    Editors,      \* the callers that change members and rewrite fragments
    MaxSeals,     \* bound: sealed_at is in 1..MaxSeals
    NoBlock, NoSeal, Gone

ASSUME MemberAssumption == /\ Frags \cap Nodes = {} /\ Blocks \cap (Frags \cup Nodes) = {}
                           /\ NoBlock \notin Blocks \cup {Gone} /\ Gone \notin Blocks
ASSUME CallerAssumption == /\ Keepers \in [Blocks -> SUBSET Callers]
                           /\ Maintainers \subseteq Callers /\ Editors \subseteq Callers
                           /\ MaxSeals \in Nat

VARIABLES
    block,   \* the rows of the blocks table
    place,   \* fragments.block_id: a block, NoBlock, or Gone when there is no row
    nodes,   \* block_nodes
    clock,   \* values of sealed_at used so far
    calls,   \* calls[c]: the local state of what c is doing
    alone,   \* callers whose call has overlapped with no other call so far
    quiet,   \* blocks sealed by such a call
    lost     \* fragments that were forgotten or pruned at some time

tables == <<block, place, nodes, clock>>
past == <<alone, quiet, lost>>
blocksVars == <<tables, calls, past>>

Members == Frags \cup Nodes
Places == Blocks \cup {NoBlock, Gone}

(* What seal() adds to a row: member hashes, the link and sealed_at.                   *)
Seal == [members : SUBSET Members, prev : Blocks \cup {NoBlock},
         prevHash : SUBSET Members, at : 1..MaxSeals]
ASSUME SealAssumption == NoSeal \notin Seal
Row == {r \in [status : {"OPEN", "SEALED", "QUARANTINED"}, seal : Seal \cup {NoSeal}] :
           r.status = "SEALED" => r.seal # NoSeal}

Steps == {"idle", "fragments", "nodes", "previous", "store",
          "owner", "status", "assign", "node", "rewrite",
          "membership", "protect", "filter", "maintain", "floor"}

Copies == UNION {[S -> Places] : S \in SUBSET Frags}

(* on: the block; row: the row of the block to store; member: the fragment or node;     *)
(* from: the block it is in; found: members hashed, or ids protected; left: blocks to     *)
(* read; copies: fragment rows read; sealed: what was in sealed blocks when the pass       *)
(* asked for them.                                                                          *)
Call == [pc : Steps, on : Blocks \cup {NoBlock}, row : Row, member : Members \cup {NoBlock},
         from : Places, found : SUBSET (Members \cup Blocks), left : SUBSET Blocks,
         copies : Copies, sealed : SUBSET Frags]

OpenRow == [status |-> "OPEN", seal |-> NoSeal]
Nothing == [f \in {} |-> NoBlock]
Resting == [pc |-> "idle", on |-> NoBlock, row |-> OpenRow, member |-> NoBlock,
            from |-> NoBlock, found |-> {}, left |-> {}, copies |-> Nothing, sealed |-> {}]

BlocksTypeOK ==
    /\ block \in [Blocks -> Row]
    /\ place \in [Frags -> Places]
    /\ nodes \in [Blocks -> SUBSET Nodes]
    /\ clock \in 0..MaxSeals
    /\ \A c \in Callers : calls[c] \in Call
    /\ alone \in SUBSET Callers /\ quiet \in SUBSET Blocks /\ lost \in SUBSET Frags

(* Blocks are created OPEN and empty, fragments are stored outside of any block.         *)
BlocksInit ==
    /\ block = [b \in Blocks |-> OpenRow]
    /\ place = [f \in Frags |-> NoBlock]
    /\ nodes = [b \in Blocks |-> {}]
    /\ clock = 0
    /\ calls = [c \in Callers |-> Resting]
    /\ alone = {} /\ quiet = {} /\ lost = {}

----------------------------------------------------------------------------
Doing(c, pc) == calls[c].pc = pc
Become(c, k) == calls' = [calls EXCEPT ![c] = k]
Local(c, k) == Become(c, k) /\ UNCHANGED <<tables, past>>
Start(c, k) == /\ Doing(c, "idle")
               /\ Become(c, k)
               /\ alone' = IF \A d \in Callers : Doing(d, "idle") THEN {c} ELSE {}
               /\ UNCHANGED <<tables, quiet, lost>>

IsSealed(b) == block[b].seal # NoSeal
In(b) == {f \in Frags : place[f] = b}

----------------------------------------------------------------------------
(* seal(), quarantine() and release(): the row is read, and stored whole at the end.      *)

MaySeal(b) == block[b].status = "OPEN"

BeginSeal(c, b) ==
    /\ c \in Keepers[b]
    /\ MaySeal(b)
    /\ Start(c, [Resting EXCEPT !.pc = "fragments", !.on = b])

(* _member_hashes, a statement for the fragments and one for the nodes.                   *)
HashFragments(c) ==
    /\ Doing(c, "fragments")
    /\ Local(c, [calls[c] EXCEPT !.pc = "nodes", !.found = In(calls[c].on)])

HashNodes(c) ==
    /\ Doing(c, "nodes")
    /\ Local(c, [calls[c] EXCEPT !.pc = "previous", !.found = @ \cup nodes[calls[c].on]])

(* latest_sealed_block(exclude_id); blocks in quarantine are passed over.                  *)
Candidates(b) == {p \in Blocks \ {b} : block[p].status = "SEALED"}
Latest(S) == IF S = {} THEN NoBlock
             ELSE CHOOSE p \in S : \A q \in S : block[q].seal.at <= block[p].seal.at

FindPrevious(c) ==
    LET k == calls[c]
        prev == Latest(Candidates(k.on))
        seal == [members |-> k.found, prev |-> prev,
                 prevHash |-> IF prev = NoBlock THEN {} ELSE block[prev].seal.members,
                 at |-> clock + 1]
    IN
    /\ Doing(c, "previous") /\ clock < MaxSeals
    /\ clock' = clock + 1
    /\ Become(c, [k EXCEPT !.pc = "store", !.found = {},
                           !.row = [status |-> "SEALED", seal |-> seal]])
    /\ UNCHANGED <<block, place, nodes, past>>

(* Mutants: quarantine resets the seal; release returns every block to SEALED. *)
Stripped(row) == [row EXCEPT !.status = "QUARANTINED", !.seal = NoSeal]
AlwaysSealed(row) == [row EXCEPT !.status = "SEALED"]
Quarantined(row) == [row EXCEPT !.status = "QUARANTINED"]
Released(row) == [row EXCEPT !.status = IF row.seal # NoSeal THEN "SEALED" ELSE "OPEN"]

BeginQuarantine(c, b) ==
    /\ c \in Keepers[b]
    /\ Start(c, [Resting EXCEPT !.pc = "store", !.on = b, !.row = Quarantined(block[b])])

BeginRelease(c, b) ==
    /\ c \in Keepers[b]
    /\ Start(c, [Resting EXCEPT !.pc = "store", !.on = b, !.row = Released(block[b])])

(* store_block: INSERT OR REPLACE, whatever the row has become.                            *)
StoreBlock(c) ==
    LET k == calls[c] IN
    /\ Doing(c, "store")
    /\ block' = [block EXCEPT ![k.on] = k.row]
    /\ quiet' = IF k.row.seal # NoSeal /\ ~IsSealed(k.on) /\ c \in alone
                THEN quiet \cup {k.on} ELSE quiet
    /\ Become(c, Resting)
    /\ UNCHANGED <<place, nodes, clock, alone, lost>>

----------------------------------------------------------------------------
(* add_fragment(), add_node() and remove_node().                                           *)

(* _require_open. *)
BeginChange(c, b, m) ==
    /\ c \in Editors
    /\ block[b].status = "OPEN"
    /\ Start(c, [Resting EXCEPT !.pc = IF m \in Frags THEN "owner" ELSE "node",
                                !.on = b, !.member = m])

(* The fragment, and the block it is in. *)
ReadOwner(c) ==
    LET k == calls[c]
        elsewhere == place[k.member] \in Blocks \ {k.on} IN
    /\ Doing(c, "owner")
    /\ Local(c, [k EXCEPT !.pc = IF elsewhere THEN "status" ELSE "assign",
                          !.from = IF elsewhere THEN place[k.member] ELSE NoBlock])

(* Mutant: the fragment may leave a block that is not OPEN. *)
MayLeaveAny(b) == TRUE
MayLeave(b) == block[b].status = "OPEN"

CheckOwner(c) ==
    LET k == calls[c] IN
    /\ Doing(c, "status")
    /\ Local(c, IF MayLeave(k.from) THEN [k EXCEPT !.pc = "assign", !.from = NoBlock]
                ELSE Resting)

(* assign_fragment_block refuses to move a fragment out of a SEALED block.                 *)
Assign(c) ==
    LET k == calls[c]
        now == place[k.member]
        refused == \/ now = Gone
                   \/ now \in Blocks \ {k.on} /\ block[now].status = "SEALED"
    IN
    /\ Doing(c, "assign")
    /\ place' = IF refused THEN place ELSE [place EXCEPT ![k.member] = k.on]
    /\ Become(c, Resting)
    /\ UNCHANGED <<block, nodes, clock, past>>

ChangeNode(c) ==
    LET k == calls[c] IN
    /\ Doing(c, "node")
    /\ \E S \in {nodes[k.on] \cup {k.member}, nodes[k.on] \ {k.member}} :
          nodes' = [nodes EXCEPT ![k.on] = S]
    /\ Become(c, Resting)
    /\ UNCHANGED <<block, place, clock, past>>

----------------------------------------------------------------------------
(* Calls on fragments.                                                                     *)

(* forget_fragment and delete: one transaction.                                            *)
Delete(f) == /\ place' = [place EXCEPT ![f] = Gone]
             /\ lost' = lost \cup {f}

Forget(f) ==
    /\ place[f] # Gone
    /\ Delete(f)
    /\ UNCHANGED <<block, nodes, clock, calls, alone, quiet>>

(* promote, feedback, supersede, resolve: the fragment is read ...                         *)
ReadFragment(c, f) ==
    /\ c \in Editors
    /\ place[f] # Gone
    /\ Start(c, [Resting EXCEPT !.pc = "rewrite", !.copies = [g \in {f} |-> place[f]]])

Upsert(c, f) == place' = [place EXCEPT ![f] = calls[c].copies[f]]

(* ... and stored whole, block_id included, whether its row still exists or not.           *)
WriteBack(c) ==
    /\ Doing(c, "rewrite")
    /\ \E f \in DOMAIN calls[c].copies : Upsert(c, f)
    /\ Become(c, Resting)
    /\ UNCHANGED <<block, nodes, clock, past>>

----------------------------------------------------------------------------
(* A maintenance pass: consolidate, deduplicate, prune, expire.                            *)

(* Mutant: blocks in quarantine protect nothing. *)
ProtectingSealed == {b \in Blocks : block[b].status = "SEALED"}
Protecting == {b \in Blocks : IsSealed(b)}

(* sealed_membership: the blocks with the member ids their seals list ...                   *)
Membership(k, pc) ==
    [k EXCEPT !.pc = pc, !.left = Protecting,
              !.found = Protecting \cup UNION {block[b].seal.members : b \in Protecting},
              !.sealed = {f \in Frags : \E b \in quiet : IsSealed(b) /\ place[f] = b}]

(* list_by_agent leaves quarantined blocks out.                                             *)
Listed ==
    LET shown == {f \in Frags : /\ place[f] # Gone
                                /\ place[f] \in Blocks => block[place[f]].status # "QUARANTINED"}
    IN [f \in shown |-> place[f]]

(* consolidate and prune ask for the membership first, deduplicate and expire list first.    *)
BeginWithMembership(c) ==
    /\ c \in Maintainers
    /\ Start(c, Membership(Resting, "protect"))

BeginWithList(c) ==
    /\ c \in Maintainers
    /\ Start(c, [Resting EXCEPT !.pc = "membership", !.copies = Listed])

ReadMembership(c) ==
    /\ Doing(c, "membership")
    /\ Local(c, Membership(calls[c], "filter"))

(* ... and, block by block, the fragments that are in it.                                  *)
ReadMembers(c) ==
    /\ \/ Doing(c, "protect") \/ Doing(c, "filter")
    /\ \E b \in calls[c].left :
          Local(c, [calls[c] EXCEPT !.left = @ \ {b}, !.found = @ \cup In(b)])

ListFragments(c) ==
    /\ Doing(c, "protect") /\ calls[c].left = {}
    /\ Local(c, [calls[c] EXCEPT !.pc = "filter", !.copies = Listed])

(* protects_fragment: by its own id, or by the block its row names.                        *)
Filter(c) ==
    LET k == calls[c]
        kept == {f \in DOMAIN k.copies : {f, k.copies[f]} \cap k.found = {}} IN
    /\ Doing(c, "filter") /\ k.left = {}
    /\ Local(c, [k EXCEPT !.pc = "maintain", !.found = {},
                          !.copies = [f \in kept |-> k.copies[f]]])

Without(c, f) == [g \in DOMAIN calls[c].copies \ {f} |-> calls[c].copies[g]]
Done(c, f) == [calls[c] EXCEPT !.pc = "maintain", !.member = NoBlock, !.copies = Without(c, f)]
InTurn(c, f) == \/ Doing(c, "maintain") /\ f \in DOMAIN calls[c].copies
                \/ Doing(c, "floor") /\ f = calls[c].member

(* Decay, promotion and merging store the fragment whole; prune may then delete it.        *)
Rewrite(c, f) ==
    /\ Doing(c, "maintain") /\ f \in DOMAIN calls[c].copies
    /\ Upsert(c, f)
    /\ Become(c, [calls[c] EXCEPT !.pc = "floor", !.member = f])
    /\ UNCHANGED <<block, nodes, clock, past>>

Prune(c, f) ==
    /\ InTurn(c, f)
    /\ Delete(f)
    /\ Become(c, Done(c, f))
    /\ UNCHANGED <<block, nodes, clock, alone, quiet>>

Spare(c, f) ==
    /\ InTurn(c, f)
    /\ Local(c, Done(c, f))

EndMaintenance(c) ==
    /\ Doing(c, "maintain") /\ DOMAIN calls[c].copies = {}
    /\ Local(c, Resting)

BlocksNext ==
    \/ \E f \in Frags : Forget(f)
    \/ \E c \in Callers :
          \/ \E b \in Blocks : \/ BeginSeal(c, b) \/ BeginQuarantine(c, b) \/ BeginRelease(c, b)
                               \/ \E m \in Members : BeginChange(c, b, m)
          \/ HashFragments(c) \/ HashNodes(c) \/ FindPrevious(c) \/ StoreBlock(c)
          \/ ReadOwner(c) \/ CheckOwner(c) \/ Assign(c) \/ ChangeNode(c)
          \/ WriteBack(c)
          \/ BeginWithMembership(c) \/ BeginWithList(c) \/ ReadMembership(c) \/ ReadMembers(c)
          \/ ListFragments(c) \/ Filter(c) \/ EndMaintenance(c)
          \/ \E f \in Frags : \/ ReadFragment(c, f)
                              \/ Rewrite(c, f) \/ Prune(c, f) \/ Spare(c, f)

BlocksSpec == BlocksInit /\ [][BlocksNext]_blocksVars

----------------------------------------------------------------------------
(* Properties. *)

(* verify_chain finds no broken link: the predecessor is in the chain with the hash        *)
(* recorded when its successor was sealed, though seals of several blocks, quarantine and  *)
(* release interleave (block_chain.py: "history of memory blocks"); and the links lead back *)
(* in time, so the chain has no cycle and a first block.                                       *)
LinksHold ==
    \A b \in Blocks : IsSealed(b) /\ block[b].seal.prev # NoBlock =>
        LET p == block[b].seal.prev IN
        /\ IsSealed(p) /\ block[p].seal.members = block[b].seal.prevHash
        /\ block[p].seal.at < block[b].seal.at

(* A block sealed by a call that overlapped with no other verifies from then on, whoever adds, moves, *)
(* rewrites, maintains, quarantines and releases: only a member that was forgotten may be   *)
(* missing (verify: missing and added members).                                              *)
SealedVerifies ==
    \A b \in quiet :
        /\ (Frags \cap block[b].seal.members) \ lost = In(b) \ lost
        /\ Nodes \cap block[b].seal.members = nodes[b]

(* A pass leaves alone what was in such a block when it asked, though blocks are put into   *)
(* quarantine and released while it runs ("so they never silently break a block's hash       *)
(* chain", block_membership.py).                                                              *)
MaintenanceSparesSealed ==
    \A c \in Callers : Doing(c, "maintain") => calls[c].sealed \cap DOMAIN calls[c].copies = {}

================================================================================
