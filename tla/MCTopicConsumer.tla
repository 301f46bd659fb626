--------------------------- MODULE MCTopicConsumer ---------------------------
(* TLC instances of TopicConsumer. *)
EXTENDS TopicConsumer

CONSTANTS a, b, c   \* business keys

Event(id, key, type, flaw) == [id |-> id, key |-> key, type |-> type, flaw |-> flaw]

\* A message no handler can decode, a request, another event about the same
\* request (a re-emitted one).
Requisitions == <<Event(1, c, "pmRequisitionSubmitted", "undecodable"),
                  Event(2, a, "pmRequisitionSubmitted", "none"),
                  Event(3, a, "pmRequisitionSubmitted", "none")>>

\* The same event twice and one without an id; what is dropped, with and
\* without a record.
Purchases == <<Event(1, a, "pmPurchaseRequisitionSubmitted", "none"),
               Event(1, a, "pmPurchaseRequisitionSubmitted", "none"),
               Event(2, b, "pmPurchaseRequisitionSubmitted", "worthless"),
               Event(3, c, "pmRequisitionSubmitted", "worthless")>>

Governance == <<Event(1, a, "govRequisitionApproved", "malformed"),
                Event(NoId, b, "govRequisitionApproved", "none"),
                Event(3, b, "govRequisitionApproved", "unmatched"),
                Event(4, c, "another", "none")>>

Payments == <<Event(1, a, "financePaymentMade", "none"),
              Event(2, b, "financePaymentMade", "unmatched"),
              Event(1, a, "financePaymentMade", "none")>>

Requests == <<Event(1, a, "procurementRequested", "none"),
              Event(2, b, "warehouseStockBelowMinimum", "none"),
              Event(3, a, "procurementRequested", "worthless"),
              Event(4, c, "procurementRequested", "malformed")>>

FuelRequests == <<Event(1, a, "fuelRequestApproved", "none"),
                  Event(2, b, "fuelRequestApproved", "malformed"),
                  Event(3, a, "fuelRequestApproved", "none"),
                  Event(4, c, "fuelRequestApproved", "undecodable")>>

On(consumer, messages) == [consumer |-> consumer, messages |-> messages]

MCTopics == {On("commercial", Requisitions), On("commercial", Purchases),
             On("commercial", Governance), On("finance", Payments),
             On("operations", Requests), On("fleet", FuelRequests)}

\* Two settlements.
TwoPayments == {On("finance", <<Event(1, a, "financePaymentMade", "none"),
                                Event(2, b, "financePaymentMade", "none")>>)}
=============================================================================
