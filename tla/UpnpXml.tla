------------------------------ MODULE UpnpXml ------------------------------
(***************************************************************************)
(* The reader of XML documents (src/weapons/upnp_xml.c).  A document is a  *)
(* sequence of tokens: start, end and empty tags with their local names    *)
(* (the reader drops prefixes and attributes), texts, constructs it skips, *)
(* and, where the document breaks off or is no XML, "broken".              *)
(***************************************************************************)
EXTENDS Integers, Sequences, FiniteSetsExt

Tag(kind, name) == [kind |-> kind, name |-> name]
Text(value) == [kind |-> "text", name |-> value]

tag_matches(token, local_name) == token.name = local_name

\* skip_construct: a comment, a declaration or a DOCTYPE that does not end
\* is an error, like a tag that does not.
Unreadable(token) == token.kind = "broken"
parse_start_tag(token) == token.kind \in {"start", "empty"}
match_end_tag(token, local_name) == token.kind = "end" /\ tag_matches(token, local_name)

FirstOf(S) == IF S = {} THEN 0 ELSE Min(S)

NotFound == [rc |-> "BAD_ENDPOINT", text |-> <<>>]

\* The first element of that name, up to the first end tag of that name.
\* Anything broken on the way there is an error; what comes after is not
\* looked at.
xml_find(doc, local_name) ==
  LET stops(i)  == \/ Unreadable(doc[i])
                   \/ parse_start_tag(doc[i]) /\ tag_matches(doc[i], local_name)
      first     == FirstOf({i \in 1..Len(doc) : stops(i)})
      closes(i) == Unreadable(doc[i]) \/ match_end_tag(doc[i], local_name)
      last      == FirstOf({i \in first + 1..Len(doc) : closes(i)})
  IN IF first = 0 \/ Unreadable(doc[first]) THEN NotFound
     ELSE IF doc[first].kind = "empty" THEN [rc |-> "OK", text |-> <<>>]
     ELSE IF last = 0 \/ Unreadable(doc[last]) THEN NotFound
     ELSE [rc |-> "OK", text |-> SubSeq(doc, first + 1, last - 1)]

\* The text is cut to the buffer.
xml_find_str(doc, local_name, cap) ==
  LET found == xml_find(doc, local_name)
      copy  == IF Len(found.text) >= cap THEN cap - 1 ELSE Len(found.text)
  IN [rc |-> found.rc, text |-> SubSeq(found.text, 1, copy)]

\* An element the document breaks off in is not present.
xml_present(doc, local_name) == xml_find(doc, local_name).rc = "OK"
=============================================================================
