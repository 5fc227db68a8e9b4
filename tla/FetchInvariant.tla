--------------------------- MODULE FetchInvariant ---------------------------
(***************************************************************************)
(* The inductive invariant of DataFetch: between any two HTTP requests,    *)
(* what has been asked for is known, and the rest is in todo.              *)
(***************************************************************************)
EXTENDS DataFetch

Enriching == {"enrich", "cities", "populations", "done"}

ListPage == ParseListPage(world.page)

(* What the Action API says about titles and about cities.                 *)
TitleAnswers ==
    [p \in Pages |-> IF Canonical(p) \in world.missing THEN Null ELSE Canonical(p)]

CityAnswers == [p \in Pages |-> world.itemOf[Canonical(p)]]

(* mapping has the answers for what was asked, except for what is in todo. *)
Resolving(answers, asked) ==
    /\ \A p \in Pages : mapping[p] \in {Null, answers[p]}
    /\ \A p \in asked : p \in Range(todo) \/ mapping[p] = answers[p]

TodoInv ==
    /\ call \in {"normalize", "enrich", "cities"} => todo \in Seq(Pages)
    /\ call = "populations" => todo \in Seq(Items)
    /\ call = "done" => todo = <<>>
    /\ todo = <<>> => attempt = 1

(* The entries are those of the list page, then those over the threshold,  *)
(* in the same order and under the titles of their pages.                  *)
EntriesInv ==
    /\ call = "normalize" => entries = ListPage
    /\ call \in Enriching =>
           /\ Len(entries) <= Len(ListPage)
           /\ \A k \in DOMAIN entries : entries[k].count # Null /\ entries[k].year # Null
    /\ call \in Enriching /\ ~malformed =>
           /\ Len(entries) = Len(Listed)
           /\ \A k \in DOMAIN entries :
                  entries[k] = [Listed[k] EXCEPT !.title = KnownPage(@)]

MappingInv ==
    /\ call \in {"list", "enrich"} => mapping = Unresolved
    /\ call = "normalize" => mapping \in [Pages -> Pages \cup {Null}]
    /\ call = "cities" => mapping \in [Pages -> Items \cup {Null}]
    /\ call = "normalize" /\ ~malformed =>
           Resolving(TitleAnswers, {entries[k].title : k \in DOMAIN entries})
    /\ call = "cities" /\ ~malformed =>
           Resolving(CityAnswers, CitiesToResolve(enrichments))

(* Of each title either all facts have been received or none is wanted yet. *)
RowsInv ==
    /\ call \in {"list", "normalize"} => rows = <<>>
    /\ call = "enrich" =>
           /\ rows \in Seq(world.facts)
           /\ \A k \in DOMAIN entries :
                  \/ entries[k].title \in Range(todo)
                  \/ FactsOf(entries[k].title) \subseteq Range(rows)

EnrichmentsInv ==
    /\ call \in {"cities", "populations", "done"} =>
           /\ Len(enrichments) = Len(entries)
           /\ \A k \in DOMAIN enrichments : enrichments[k].visitors # NoCounts
    /\ call = "cities" /\ ~malformed =>
           \A k \in DOMAIN enrichments : DescribesWith(enrichments[k], Listed[k], Null)
    /\ EnrichedAsListed

(* Every city's populations are asked for once.                            *)
PopulationsInv ==
    call \in {"populations", "done"} =>
        /\ IsInjective(todo)
        /\ IsInjective(rows)
        /\ Range(todo) \subseteq CityItems(enrichments)
        /\ Range(rows) = (CityItems(enrichments) \ Range(todo)) \cap world.populated

(* Each kind of request needs at most as many chunks as the list page has; *)
(* every chunk that is no longer in todo took MaxAttempts requests at most.*)
Chunked == <<"normalize", "enrich", "cities", "populations">>

Budget(j, all, left) == MaxAttempts * (1 + j * all - left)

BudgetInv ==
    /\ call = "list" => requests < attempt
    /\ \A j \in DOMAIN Chunked : call = Chunked[j] =>
           /\ Len(todo) <= Len(ListPage)
           /\ requests < attempt + Budget(j, Chunks(Len(ListPage)), Chunks(Len(todo)))
    /\ RequestsBounded

(* Between any two requests nothing of what was asked for has been lost,   *)
(* attached to another museum or asked for twice, wherever the chunks are  *)
(* cut and however often a request is repeated.                            *)
FetchInv ==
    /\ TypeOK
    /\ TodoInv
    /\ EntriesInv
    /\ MappingInv
    /\ RowsInv
    /\ EnrichmentsInv
    /\ PopulationsInv
    /\ BudgetInv
=============================================================================
