----------------------------- MODULE MCSeedCache -----------------------------
(* TLC instance of SeedCache: lines, orders and one more table, in the order
   Load reads them.  An order is written with its lines or alone; a consumer
   writes the third table. *)
EXTENDS SeedCache

OrderWithLines == {{1, 2}, {2}}
ThirdTable == {{3}}
=============================================================================
