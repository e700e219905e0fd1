------------------------------- MODULE MCUpnp -------------------------------
EXTENDS Upnp

MCPeers == {[family |-> "inet", ip |-> "peer", port |-> 1],
            [family |-> "inet6", ip |-> "peer", port |-> 1]}

Location(host, port, path) ==
  [size |-> "fits", scheme |-> "http", host |-> host, port |-> port, path |-> path]
Reply(location) == <<Line("status", "200"), Line("location", location), BlankLine>>

MCReplies ==
  {Reply(Location("inet", -1, "")), Reply(Location("inet", 5000, "/d")),
   Reply(Location("name", 80, "/d")), Reply(Location("inet", 70000, "/d")),
   Reply([Location("inet", 80, "/d") EXCEPT !.scheme = "https"]),
   <<Line("status", "200"), BlankLine, Line("location", Location("inet", 80, "/d"))>>}

MCLengths == {-1, 0, 1}

Service(type, form, path) == [type |-> type, form |-> form, path |-> path]
MCGateways ==
  {<<Service("WANIPConnection:1", "path", "/ip")>>,
   <<Service("WANPPPConnection:1", "absolute", "/ppp"), Service("WANIPConnection:2", "path", "/ip")>>,
   <<Service("WANIPConnection:1", "relative", "ip")>>}

\* A gateway as they mostly are: another service is described first.
MCOthersFirst ==
  {<<Service("Layer3Forwarding:1", "path", "/l3"), Service("WANIPConnection:1", "path", "/ip")>>}
=============================================================================
