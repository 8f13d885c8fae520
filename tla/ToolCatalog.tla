---------------------------- MODULE ToolCatalog ----------------------------
(***************************************************************************)
(* listTools() and requireTools() of mcp/raw-client.ts: the pages of the   *)
(* target's tools are requested one after the other, each with the cursor  *)
(* of the one before, until a page has none; and the scenario's tools must *)
(* be among them.  The target answers what it likes.  That a request may   *)
(* fail, and that a refusal ends the client, is the subject of RawClient.  *)
(***************************************************************************)
EXTENDS Naturals, Sequences, FiniteSets, SequencesExt, Functions

CONSTANTS
  ToolNames,     \* of tools
  Cursors,       \* of pages
  NoCursor,      \* of the last page
  MaxListPages,  \* options.maxListPages
  MaxTools,      \* options.maxTools
  MaxPageTools   \* bound on the tools of one page

ASSUME CatalogAssumption ==
  /\ {MaxListPages, MaxTools} \subseteq Nat \ {0}
  /\ MaxPageTools \in Nat
  /\ NoCursor \notin Cursors

VARIABLES
  required,  \* the tools the scenario needs
  outcome,   \* "asking", "listed", "accepted", "missing", "refused", "failed"
  tools,     \* the tools of the pages so far; toolNames holds their names
  seen,      \* seenCursors
  page,      \* pages taken by the loop
  pages      \* ghost: what the target sent

catalogVars == <<required, outcome, tools, seen, page, pages>>

CatalogInit ==
  /\ required \in SUBSET ToolNames
  /\ outcome = "asking"
  /\ tools = <<>> /\ seen = {} /\ page = 0
  /\ pages = <<>>

-----------------------------------------------------------------------------
(* One tool of a page, unless an earlier one was refused. *)
AddTool(catalog, tool) ==
  IF catalog.refused THEN catalog
  ELSE IF Contains(catalog.tools, tool) THEN [catalog EXCEPT !.refused = TRUE]
  ELSE [tools   |-> Append(catalog.tools, tool),
        refused |-> Len(catalog.tools) + 1 > MaxTools]

(* The loop over the tools of a page. *)
Added(list) ==
  LET added[k \in 0 .. Len(list)] ==
        IF k = 0 THEN [tools |-> tools, refused |-> FALSE]
        ELSE AddTool(added[k - 1], list[k])
  IN added[Len(list)]

(* Mutant: the cursor is not remembered. *)
NextPage_ForgetsCursor(next) ==
  /\ next # NoCursor /\ next \notin seen
  /\ seen' = seen /\ page' = page + 1
  /\ outcome' = IF page' < MaxListPages THEN "asking" ELSE "refused"

(* The next turn of the loop, or its end when no page is left to ask for. *)
NextPage(next) ==
  /\ next # NoCursor /\ next \notin seen
  /\ seen' = seen \union {next} /\ page' = page + 1
  /\ outcome' = IF page' < MaxListPages THEN "asking" ELSE "refused"

Answer(list, next) ==
  /\ outcome = "asking"
  /\ pages' = Append(pages, [tools |-> list, next |-> next])
  /\ tools' = Added(list).tools
  /\ \/ /\ Added(list).refused
        /\ outcome' = "refused" /\ UNCHANGED <<seen, page>>
     \/ /\ ~Added(list).refused /\ next = NoCursor
        /\ outcome' = "listed" /\ UNCHANGED <<seen, page>>
     \/ /\ ~Added(list).refused /\ next \in seen
        /\ outcome' = "refused" /\ UNCHANGED <<seen, page>>
     \/ ~Added(list).refused /\ NextPage(next)
  /\ UNCHANGED required

RequestFails ==
  /\ outcome = "asking" /\ outcome' = "failed"
  /\ UNCHANGED <<required, tools, seen, page, pages>>

Require ==
  /\ outcome = "listed"
  /\ outcome' = IF required \subseteq ToSet(tools) THEN "accepted" ELSE "missing"
  /\ UNCHANGED <<required, tools, seen, page, pages>>

CatalogOver ==
  /\ outcome \in {"accepted", "missing", "refused", "failed"}
  /\ UNCHANGED catalogVars

CatalogNext ==
  \/ \E list \in SeqOf(ToolNames, MaxPageTools), next \in Cursors \union {NoCursor}:
       Answer(list, next)
  \/ RequestFails \/ Require \/ CatalogOver

CatalogSpec == CatalogInit /\ [][CatalogNext]_catalogVars

-----------------------------------------------------------------------------
(* What the target sent, as a whole. *)
Listed     == FlattenSeq([k \in DOMAIN pages |-> pages[k].tools])
AskedWith  == [k \in 1 .. Len(pages) |-> pages[k].next]
IsComplete == pages # <<>> /\ Last(pages).next = NoCursor

IsSound ==
  /\ IsInjective(Listed) /\ Len(Listed) <= MaxTools
  /\ IsInjective(AskedWith)
  /\ IsComplete \/ Len(pages) < MaxListPages

(* A catalogue counts if and only if it is sound as a whole, however it is
   spread over pages: the client goes on asking only while it is, never more
   than MaxListPages times and never twice with one cursor; what it accepts is
   complete and holds every tool of the scenario, and what it refuses has a
   fault. *)
CatalogIsWhole ==
  /\ outcome = "refused" <=> ~IsSound
  /\ outcome = "asking" => ~IsComplete
  /\ outcome \in {"listed", "accepted", "missing"} => IsComplete /\ tools = Listed
  /\ outcome = "accepted" => required \subseteq ToSet(Listed)
  /\ outcome = "missing" => ~(required \subseteq ToSet(Listed))

=============================================================================
