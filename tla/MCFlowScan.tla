----------------------------- MODULE MCFlowScan -----------------------------
(* Small relations for FlowScan.                                           *)
EXTENDS FlowScan

Def(tid, f) == [template_id |-> tid, fields |-> f, ok |-> TRUE]
Cut(tid) == [template_id |-> tid, fields |-> 1, ok |-> FALSE]

Tpl(id, items) == [id |-> id, items |-> items, bytes |-> 8]
Data(id, len) == [id |-> id, items |-> <<>>, bytes |-> len]

Dgram(version, exporter, domain, sets) ==
  [NoRow EXCEPT !.version = version, !.exporter = exporter,
                !.hdr_domain = domain, !.sets = sets]

Bad(version, shape) == [NoRow EXCEPT !.version = version, !.shape = shape]

FlowsOnly(r) == [r EXCEPT !.flows_only = TRUE]
Override(r, domain) == [r EXCEPT !.obs_override = domain]

\* Templates and data of two exporters: redefinition, data before template in the
\* same and in an earlier datagram, several data sets of one key, of both versions.
MixRows ==
  {Dgram("9", 1, 0, <<Data(256, 1), Data(256, 2)>>),
   Dgram("9", 1, 0, <<Data(256, 1), Tpl(0, <<Def(256, 1)>>)>>),
   Dgram("10", 1, 0, <<Tpl(2, <<Def(256, 2), Def(257, 1)>>), Data(257, 2)>>),
   Dgram("10", 1, 0, <<Data(256, 1)>>),
   Dgram("10", 2, 0, <<Data(256, 3)>>),
   FlowsOnly(Dgram("10", 2, 0, <<Tpl(3, <<Def(256, 3)>>), Data(256, 1)>>)),
   Override(Dgram("9", 2, 1, <<Tpl(1, <<Def(256, 4), Cut(257)>>)>>), 0)}

\* Every way a datagram is answered without the cache, around stateful ones.
EdgeRows ==
  {NoRow, Bad("5", "ok"), Bad("9", "bad-header"), Bad("10", "bad-set"),
   Bad("sflow5", "ok"), Bad("none", "ok"),
   Dgram("9", 1, 0, <<Tpl(0, <<Def(256, 0), Def(0, 0), Def(257, 1)>>), Tpl(7, <<>>)>>),
   Dgram("9", 1, 0, <<Data(256, 0), Data(257, 1)>>),
   Dgram("10", 1, 0, <<Tpl(2, <<Def(257, 0), Def(256, 1)>>), Data(256, 4)>>)}

AllRows == MixRows \cup EdgeRows

\* One exporter heard over both versions, options templates, both modes.
ClashRows ==
  {Dgram("9", 1, 0, <<Data(256, 1)>>),
   Dgram("10", 1, 0, <<Data(256, 1)>>),
   FlowsOnly(Dgram("10", 1, 0, <<Tpl(3, <<Def(256, 1)>>)>>)),
   Dgram("10", 1, 0, <<Tpl(2, <<Def(257, 0), Def(258, 1)>>)>>)}

\* Readings of a clock that may step back.
TwoStamps == {1, 2}
OneStamp == {1}
=============================================================================
