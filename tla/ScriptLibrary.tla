---------------------------- MODULE ScriptLibrary ----------------------------
(***************************************************************************)
(* The script tab of the communication tools: a filtered and paged list    *)
(* whose filters and page live in the address, the dialog of a script, the *)
(* manager of the script types, favourites and deletions.  Each change is  *)
(* a mutation whose answer asks for the list again; meanwhile the reader   *)
(* goes on filtering and turning pages.  What is typed in a dialog is      *)
(* chosen when it is sent.                                                 *)
(***************************************************************************)
EXTENDS Naturals, FiniteSets, QueryCache

CONSTANTS
    Scripts, Matching,  \* scripts, and those that the words searched for match
    TypeNames, AnyType, \* script types; AnyType also marks a script that does not exist
    Alike,              \* the names that contain each name, as its LIKE pattern finds them
    NoScript,
    LibraryPageSize,    \* page_size of the server
    MaxServed           \* bound: changes served; one is under way at a time

ASSUME LibraryAssumption ==
    /\ IsFiniteSet(Scripts) /\ Matching \subseteq Scripts /\ NoScript \notin Scripts
    /\ TypeNames # {} /\ AnyType \notin TypeNames
    /\ Alike \in [TypeNames -> SUBSET TypeNames] /\ \A t \in TypeNames : t \in Alike[t]
    /\ LibraryPageSize \in Nat \ {0} /\ MaxServed \in Nat

LibraryPages == 1..(Cardinality(Scripts) \div LibraryPageSize)  \* bound
Filters == [q : BOOLEAN, type : TypeNames \cup {AnyType}, favorite : BOOLEAN, page : LibraryPages]
ScriptLists == [page : LibraryPages, found : SUBSET Scripts]
LibraryChanges == {"create", "save", "delete", "favorite", "saveType", "deleteType"}

VARIABLES
    shelf,      \* server: the type of each script, and whether it is a favourite
    types,      \* server: the types of the account
    filters,    \* the parameters of the address
    scriptList, \* the query under the key of the filters
    scriptDialog, \* closed, a new script, or the script that is edited
    asked,      \* the mutations, one of each kind
    served,     \* bound: changes served
    strayed,    \* history: the page was not chosen on the list as it is
    apart       \* history: the list was left behind its records

libraryVars ==
    <<shelf, types, filters, scriptList, scriptDialog, asked, served, strayed, apart>>

LibraryQuiet == [phase |-> "idle", on |-> NoScript, from |-> AnyType, to |-> AnyType]

LibraryTypeOK ==
    /\ shelf \in [Scripts -> [type : TypeNames \cup {AnyType}, favorite : BOOLEAN]]
    /\ types \subseteq TypeNames
    /\ filters \in Filters
    /\ scriptList \in Query(ScriptLists)
    /\ scriptDialog \in Scripts \cup {"closed", "new"}
    /\ asked \in [LibraryChanges ->
                    [phase : {"idle", "sent", "done", "failed"}, on : Scripts \cup {NoScript},
                     from : TypeNames \cup {AnyType}, to : TypeNames \cup {AnyType}]]
    /\ served \in 0..MaxServed /\ strayed \in BOOLEAN /\ apart \in BOOLEAN

Kept(s) == shelf[s].type # AnyType

\* ListScripts (the words of a script stay)
Found(f) ==
    {s \in Scripts :
        /\ Kept(s) /\ (f.q => s \in Matching) /\ (f.favorite => shelf[s].favorite)
        /\ f.type # AnyType => shelf[s].type \in Alike[f.type]}

\* total of an answer, and the scripts that its page may show
TotalFound(list) == Cardinality(list.found)
IsEmpty(list) == (list.page - 1) * LibraryPageSize >= TotalFound(list)
HasNext(list) == list.page * LibraryPageSize < TotalFound(list)
ScriptsOnPage(list) == IF IsEmpty(list) THEN {} ELSE list.found

NoFilter == [q |-> FALSE, type |-> AnyType, favorite |-> FALSE, page |-> 1]

LibraryInit ==
    /\ types \in {{CHOOSE t \in TypeNames : TRUE}, TypeNames}
    /\ shelf = [s \in Scripts |->
        [type |-> IF s \in Matching THEN CHOOSE t \in TypeNames : TRUE ELSE AnyType,
         favorite |-> FALSE]]
    /\ filters = NoFilter
    /\ scriptList = Started(Blank)
    /\ scriptDialog = "closed"
    /\ asked = [k \in LibraryChanges |-> LibraryQuiet]
    /\ served = 0 /\ strayed = FALSE /\ apart = FALSE

-----------------------------------------------------------------------------
(* The list                                                                *)

ReadScripts ==
    /\ MayRead(scriptList)
    /\ scriptList' = ReadAs(scriptList, [page |-> filters.page, found |-> Found(filters)])
    /\ UNCHANGED <<shelf, types, filters, scriptDialog, asked, served, strayed, apart>>

AnswerScripts ==
    /\ \/ MayAnswer(scriptList) /\ scriptList' = Answered(scriptList)
       \/ scriptList.busy /\ scriptList' = Failed(scriptList)
    /\ UNCHANGED <<shelf, types, filters, scriptDialog, asked, served, strayed, apart>>

RetryScripts ==
    /\ scriptList.failed /\ ~scriptList.busy
    /\ scriptList' = Started(scriptList)
    /\ UNCHANGED <<shelf, types, filters, scriptDialog, asked, served, strayed, apart>>

UnderChange == \E k \in LibraryChanges : asked[k].phase # "idle"

\* updateSearchParams: another key is fetched, and shows meanwhile what the
\* cache still has of it, if anything; that may be any earlier state.
Selects(f) ==
    /\ f # filters
    /\ filters' = f
    /\ \E old \in {NoData} \cup {list \in ScriptLists : list.page = f.page} :
        scriptList' = Started([Blank EXCEPT !.data = old])
    /\ UNCHANGED <<shelf, types, scriptDialog, asked, served, apart>>

ChosenAnew(f) == Selects(f) /\ strayed' = FALSE

NoDialog == scriptDialog = "closed"

\* Variant: the words searched for keep the page.
SetQOnPage == NoDialog /\ \E q \in BOOLEAN : ChosenAnew([filters EXCEPT !.q = q])

\* Every filter returns to the first page.
SetQ == NoDialog /\ \E q \in BOOLEAN : ChosenAnew([filters EXCEPT !.q = q, !.page = 1])

\* ScriptTypeFilter; a type that is gone stays selected.
SetScriptType ==
    /\ NoDialog
    /\ \E t \in types \cup {AnyType} : ChosenAnew([filters EXCEPT !.type = t, !.page = 1])

SetFavoritesOnly ==
    NoDialog /\ \E only \in BOOLEAN : ChosenAnew([filters EXCEPT !.favorite = only, !.page = 1])

ClearFilters == NoDialog /\ ChosenAnew(NoFilter)

SetScriptPage ==
    /\ NoDialog /\ IsShown(scriptList) /\ ~IsEmpty(scriptList.data)
    /\ \E p \in LibraryPages :
        /\ \/ p = scriptList.data.page + 1 /\ HasNext(scriptList.data)
           \/ p = scriptList.data.page - 1
        /\ Selects([filters EXCEPT !.page = p])
        /\ strayed' = (p > 1 /\ (strayed \/ scriptList.busy \/ UnderChange))

\* A link, or a step in the browser's history
FromAddress ==
    /\ \E p \in LibraryPages \ {1} : Selects([filters EXCEPT !.page = p])
    /\ strayed' = TRUE

-----------------------------------------------------------------------------
(* The changes                                                             *)

OpenScriptDialog ==
    /\ NoDialog
    /\ scriptDialog' \in {"new"} \cup (IF IsShown(scriptList) THEN ScriptsOnPage(scriptList.data) ELSE {})
    /\ UNCHANGED <<shelf, types, filters, scriptList, asked, served, strayed, apart>>

CloseScriptDialog ==
    /\ ~NoDialog
    /\ scriptDialog' = "closed"
    /\ UNCHANGED <<shelf, types, filters, scriptList, asked, served, strayed, apart>>

LibraryAsk(k, on, from, to) ==
    /\ ~UnderChange /\ served < MaxServed
    /\ asked' = [asked EXCEPT ![k] = [phase |-> "sent", on |-> on, from |-> from, to |-> to]]
    /\ UNCHANGED <<shelf, types, filters, scriptList, scriptDialog, served, strayed, apart>>

\* ScriptDialog: the type may be a new one.
SaveScript ==
    /\ ~NoDialog
    /\ \E s \in Scripts, t \in TypeNames :
        \/ s = scriptDialog /\ LibraryAsk("save", s, AnyType, t)
        \/ scriptDialog = "new" /\ ~Kept(s) /\ LibraryAsk("create", s, AnyType, t)

\* of a script that is listed, and may be gone
AskOfListed(k) ==
    /\ NoDialog /\ IsShown(scriptList)
    /\ \E s \in ScriptsOnPage(scriptList.data) : LibraryAsk(k, s, AnyType, AnyType)

DeleteScript == AskOfListed("delete")
ToggleFavorite == AskOfListed("favorite")

\* ScriptTypeManagerDialog
SaveScriptType ==
    /\ NoDialog
    /\ \E from \in types \cup {AnyType}, to \in TypeNames :
        from # to /\ LibraryAsk("saveType", NoScript, from, to)

DeleteScriptType ==
    NoDialog /\ \E t \in types : LibraryAsk("deleteType", NoScript, t, AnyType)

\* A missing script or type, a name taken and a type in use are refused.
Granted(k, a) ==
    CASE k = "create" -> TRUE
      [] k \in {"save", "delete", "favorite"} -> Kept(a.on)
      [] k = "saveType" -> a.from \in types \cup {AnyType} /\ a.to \notin types
      [] OTHER -> a.from \in types /\ \A s \in Scripts : shelf[s].type # a.from

Written(k, a) ==
    CASE k \in {"create", "save"} -> [shelf EXCEPT ![a.on].type = a.to]
      [] k = "delete" -> [shelf EXCEPT ![a.on] = [type |-> AnyType, favorite |-> FALSE]]
      [] k = "favorite" -> [shelf EXCEPT ![a.on].favorite = ~@]
      [] k = "saveType" -> [s \in Scripts |->
            IF Kept(s) /\ shelf[s].type = a.from THEN [shelf[s] EXCEPT !.type = a.to] ELSE shelf[s]]
      [] OTHER -> shelf

\* ensureScriptType: a statement of its own, before the script is written
TypesEnsured(k, a) == types \cup (IF k \in {"create", "save"} THEN {a.to} ELSE {})

\* A script that is not written leaves its type behind.
ServeLibrary(k) ==
    /\ asked[k].phase = "sent" /\ served < MaxServed
    /\ \/ /\ Granted(k, asked[k])
          /\ shelf' = Written(k, asked[k])
          /\ types' = (types \ {asked[k].from}) \cup ({asked[k].to} \ {AnyType})
          /\ asked' = [asked EXCEPT ![k].phase = "done"]
          /\ served' = served + 1
          /\ strayed' = (strayed \/ filters.page > 1)
       \/ /\ ~Granted(k, asked[k]) \/ k \in {"create", "save"}
          /\ types' = TypesEnsured(k, asked[k])
          /\ asked' = [asked EXCEPT ![k].phase = "failed"]
          /\ UNCHANGED <<shelf, served, strayed>>
    /\ UNCHANGED <<filters, scriptList, scriptDialog, apart>>

\* The answer is lost, or the request never arrives.
LoseLibrary(k) ==
    /\ asked[k].phase \in {"sent", "done"}
    /\ asked' = [asked EXCEPT ![k].phase = "failed"]
    /\ apart' = (apart \/ asked[k].phase = "done")
    /\ UNCHANGED <<shelf, types, filters, scriptList, scriptDialog, served, strayed>>

\* onSaved, onChanged, and the onSuccess of the deletion and of the star: the
\* list is asked for again, and a late answer of a save closes any dialog.  A
\* first fetch that the server has already read is joined.
LibraryAnswer(k) ==
    /\ asked[k].phase = "done"
    /\ asked' = [asked EXCEPT ![k] = LibraryQuiet]
    /\ scriptDialog' = IF k \in {"create", "save"} THEN "closed" ELSE scriptDialog
    /\ scriptList' = Restarted(scriptList)
    /\ apart' = (apart \/ (scriptList.data = NoData /\ scriptList.seen # NoData))
    /\ UNCHANGED <<shelf, types, filters, served, strayed>>

\* The dialog, or the notice, reports an error.
LibraryRefused(k) ==
    /\ asked[k].phase = "failed"
    /\ asked' = [asked EXCEPT ![k] = LibraryQuiet]
    /\ UNCHANGED <<shelf, types, filters, scriptList, scriptDialog, served, strayed, apart>>

LibraryMoves ==
    \/ ReadScripts \/ AnswerScripts \/ RetryScripts
    \/ SetQ \/ SetScriptType \/ SetFavoritesOnly \/ ClearFilters \/ SetScriptPage \/ FromAddress
    \/ OpenScriptDialog \/ CloseScriptDialog \/ SaveScript
    \/ DeleteScript \/ ToggleFavorite \/ SaveScriptType \/ DeleteScriptType
    \/ \E k \in LibraryChanges :
        ServeLibrary(k) \/ LoseLibrary(k) \/ LibraryAnswer(k) \/ LibraryRefused(k)

\* Bound: a list that was left behind is not followed any further.
LibraryNext == (~apart /\ LibraryMoves) \/ (apart /\ UNCHANGED libraryVars)

LibrarySpec == LibraryInit /\ [][LibraryNext]_libraryVars

-----------------------------------------------------------------------------
(* Properties                                                              *)

\* Once its fetch has ended and no change waits for its answer, the list was
\* taken from exactly the scripts that its filters select, whatever was saved,
\* renamed, starred or deleted while it was filtered; and when it says that
\* there is nothing, there is nothing, unless its page was turned on an older
\* list, came with the address or lost its rows to a change.
ScriptsAreFound ==
    ~apart /\ AtRest(scriptList) /\ IsShown(scriptList) /\ ~UnderChange =>
        /\ scriptList.data.found = Found(filters)
        /\ ~strayed /\ IsEmpty(scriptList.data) => Found(filters) = {}
=============================================================================
