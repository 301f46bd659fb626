--------------------------- MODULE MCVendorMaster ---------------------------
(* TLC instance of VendorMaster. *)
EXTENDS VendorMaster

CONSTANTS v1, v2, p, c

Event(id, kind, party, ref, at, user) ==
    [id |-> id, kind |-> kind, party |-> party, ref |-> ref, at |-> at, user |-> user]

\* One party, which finance knows by no code and supply chain by c, or which
\* finance knows by the id of a vendor here.
Peers == {Event(1, "upsert", p, None, 0, None), Event(2, "upsert", p, c, 0, None),
          Event(3, "upsert", p, v1, 0, None)}
SupplyChain == {Event(4, "party", p, c, 0, None), Event(5, "link", p, c, 0, "user"),
                Event(6, "upsert", p, None, 0, None), Event(2, "upsert", p, c, 0, None)}
\* Scorecards of a vendor named by its code or by its id, of which the older
\* may come last.
Quality == {Event(7, "advice", p, c, 1, None), Event(8, "advice", p, c, 2, None),
            Event(9, "advice", p, v1, 1, None), Event(2, "upsert", p, c, 0, None)}
\* One without a time, which the clocks date before or after the other.
UndatedQuality == {Event(8, "advice", p, c, 2, None), Event(10, "advice", p, c, Undated, None),
                   Event(2, "upsert", p, c, 0, None)}
\* Peers edit the vendor this service announced, under its party: finance by
\* the id here, another by the code c, a third by no code; and p comes by c too.
Echoes == {Event(11, "upsert", OwnParty(v1), v1, 0, None), Event(12, "upsert", OwnParty(v1), c, 0, None),
           Event(13, "upsert", OwnParty(v1), None, 0, None), Event(2, "upsert", p, c, 0, None)}
MCInboxes == {Peers, SupplyChain, Quality, UndatedQuality, Echoes}
=============================================================================
