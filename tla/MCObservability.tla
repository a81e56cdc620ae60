---------------------------- MODULE MCObservability ----------------------------
(* Instances of Observability for TLC.                                      *)
EXTENDS Observability, TLC

CONSTANTS f1, f2, k1, none, unknown, unlisted

Known(input, output) == [input |-> input, output |-> output, total |-> unknown]
TotalOnly(total) == [input |-> unknown, output |-> unknown, total |-> total]

\* Answers with full usage, with none, with half of it, and with a count that is none.
AllReports ==
    [qualification |-> {Known(3, 2)},
     research_context |-> {Known(4, -1)},
     email_draft |-> {Known(5, 2)},
     embedding_document |-> {TotalOnly(7)},
     embedding_query |-> {TotalOnly(unknown)}]

\* The language model is priced per direction, the embedding model in total.
AllPrices ==
    [op \in Operations |->
        CASE op \in {"qualification", "research_context"} ->
                [input |-> 2, output |-> 3, total |-> unknown]
          [] op = "email_draft" -> unlisted
          [] OTHER -> [input |-> unknown, output |-> unknown, total |-> 1]]

AllEmbeds == [k \in Embedders |-> "embedding_document"]

AllRunRows == {"qualification", "orchestration"} \X Flows
=============================================================================
