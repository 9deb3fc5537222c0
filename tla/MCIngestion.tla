------------------------------- MODULE MCIngestion -------------------------------
(* Instances of Ingestion for TLC.                                           *)
EXTENDS Ingestion

NodeEntry(label, keys, attrs, needs) ==
  [kind |-> "node", label |-> label, keys |-> keys, attrs |-> attrs, source |-> <<>>,
   target |-> <<>>, needs |-> needs]
EdgeEntry(label, source, target, needs) ==
  [kind |-> "edge", label |-> label, keys |-> {}, attrs |-> <<>>, source |-> source,
   target |-> target, needs |-> needs]

\* "facts" makes a device.  "peers" makes devices twice, with other attributes, and
\* a link between them, if there is a neighbour; and a batch whose key is no
\* attribute, which MERGE refuses.
Defs ==
  [facts |-> <<NodeEntry("Device", {"name"}, [name |-> "hostname", model |-> "MODEL"], {})>>,
   peers |-> <<NodeEntry("Device", {"name"}, [name |-> "NEIGHBOR", ip |-> "IP"], {"NEIGHBOR"}),
               NodeEntry("Device", {"name"}, [name |-> "hostname", port |-> "PORT"], {}),
               NodeEntry("Site", {"site"}, [at |-> "IP"], {"IP"}),
               EdgeEntry("LINKS", [name |-> "hostname"], [name |-> "NEIGHBOR"], {"NEIGHBOR"})>>]

Cli(parser, mapping) == [type |-> "cli", parser |-> parser, mapping |-> mapping]
Api(mapping) == [type |-> "api", parser |-> "", mapping |-> mapping]
Fine(records) == [status |-> "fine", records |-> records]
Down == [status |-> "down", records |-> <<>>]
Garbled == [status |-> "garbled", records |-> <<>>]

ThreeDevices == <<"sw1", "sw2", "sw3">>
TwoCommands == <<Cli("version", "facts"), Api("peers")>>
AllDevices ==
  [sw1 |-> <<Fine(<<[MODEL |-> "m1"]>>),
             Fine(<<[NEIGHBOR |-> "sw2x", IP |-> "i2", PORT |-> "p1"], [PORT |-> "p2"]>>)>>,
   sw2 |-> <<Fine(<<[MODEL |-> "m2", hostname |-> "sw2x"]>>), Down>>,
   sw3 |-> <<Garbled, Down>>]
================================================================================
