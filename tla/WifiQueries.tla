------------------------------ MODULE WifiQueries ------------------------------
(***************************************************************************)
(* The requests of the HAL that are over with their answer: what each      *)
(* command class makes of a reply in its handleResponse.  A reply is only  *)
(* tested for being a vendor reply; which command it answers is told by    *)
(* nothing but the types of its attributes, and the enumerations of        *)
(* wifi_hal.cpp, gscan.cpp and rtt.cpp overlap.                            *)
(*                                                                         *)
(* An attribute is a type and what it holds, a number or values.  The      *)
(* caller's buffer is a function from its places to values, next to the    *)
(* count he is given.                                                      *)
(***************************************************************************)
EXTENDS Integers, Sequences

\* A command of a class, with the room its caller has.
Query(class, max) == [class |-> class, max |-> max]

\* The types that matter: GSCAN_ATTRIBUTE_CAPABILITIES and
\* RTT_ATTRIBUTE_CAPABILITIES are one number, and BAND is the same.
CAPABILITIES == 1
NUM_CHANNELS == 2
CHANNEL_LIST == 3
NUM_FEATURE_SET == 4
FEATURE_SET == 5

Number(type, n) == [type |-> type, number |-> n, values |-> <<>>]
Attribute(type, values) == [type |-> type, number |-> 0, values |-> values]

\* What a caller finds that nobody has written, and the bytes behind an
\* attribute that is shorter than it is taken to be.
Blank == <<>>
Junk == <<"junk">>
Unset == -1

Fresh(q) == [num |-> Unset, items |-> [i \in 1..q.max |-> Blank]]

\* What the driver answers to q when it has these values, in the order it writes
\* it: how many they are and then the values, or the one thing it has.
DriverAnswer(q, values) ==
    CASE q.class = "channels" ->
           <<Number(NUM_CHANNELS, Len(values)), Attribute(CHANNEL_LIST, values)>>
      [] q.class = "matrix" ->
           [i \in 1..(Len(values) + 1) |->
               IF i = 1 THEN Number(NUM_FEATURE_SET, Len(values))
                        ELSE Attribute(FEATURE_SET, <<values[i - 1]>>)]
      [] q.class \in {"gscan", "rtt"} ->
           <<Attribute(CAPABILITIES, values)>>

-----------------------------------------------------------------------------
Least(m, n) == IF m < n THEN m ELSE n

\* items with values copied over its first n places, wherever they end.
Copied(items, n, values) ==
    [i \in DOMAIN items \cup 1..n |->
        IF i > n THEN items[i] ELSE IF i <= Len(values) THEN values[i] ELSE Junk]

\* items with one value written to the i-th place, wherever that is.
Written(items, i, value) ==
    [j \in DOMAIN items \cup {i} |-> IF j = i THEN value ELSE items[j]]

\* What the loop over the attributes of a reply has come to: the count it
\* believes, how many sets it has taken, and the caller's buffer.
Progress(n, i, num, items) == [n |-> n, i |-> i, num |-> num, items |-> items]

\* The count is taken as it comes (a mutant).
ChannelAttributeUnclipped(max, s, a) ==
    CASE a.type = NUM_CHANNELS ->
           Progress(a.number, s.i, a.number, s.items)
      [] a.type = CHANNEL_LIST /\ s.n # 0 ->
           Progress(s.n, s.i, s.num, Copied(s.items, s.n, a.values))
      [] OTHER -> s

\* One attribute of a reply to GetChannelListCommand: the count, cut to the
\* caller's room, and the list of that many.
ChannelAttribute(max, s, a) ==
    CASE a.type = NUM_CHANNELS ->
           Progress(Least(a.number, max), s.i, Least(a.number, max), s.items)
      [] a.type = CHANNEL_LIST /\ s.n # 0 ->
           Progress(s.n, s.i, s.num, Copied(s.items, s.n, a.values))
      [] OTHER -> s

\* The sets are taken to be numbered from 1 (a mutant).
FeatureAttributeOffByOne(max, s, a) ==
    CASE a.type = NUM_FEATURE_SET ->
           Progress(Least(a.number, max), s.i, Least(a.number, max), s.items)
      [] a.type = FEATURE_SET /\ s.i + 1 < s.n ->
           Progress(s.n, s.i + 1, s.num, Written(s.items, s.i + 2, a.values[1]))
      [] OTHER -> s

\* One attribute of a reply to GetFeatureSetCommand: the count comes first and
\* each set takes the next place, as long as there is one.
FeatureAttribute(max, s, a) ==
    CASE a.type = NUM_FEATURE_SET ->
           LET n == IF max # 0 THEN Least(a.number, max) ELSE a.number
           IN  Progress(n, s.i, n, s.items)
      [] a.type = FEATURE_SET /\ s.i < s.n ->
           Progress(s.n, s.i + 1, s.num, Written(s.items, s.i + 1, a.values[1]))
      [] OTHER -> s

AttributeRead(q, s, a) ==
    IF q.class = "channels" THEN ChannelAttribute(q.max, s, a)
                            ELSE FeatureAttribute(q.max, s, a)

\* What the loop has come to after the first k attributes.
AttributesRead(q, out, answer) ==
    LET s[k \in 0..Len(answer)] ==
            IF k = 0 THEN Progress(0, 0, out.num, out.items)
                     ELSE AttributeRead(q, s[k - 1], answer[k])
    IN s

BufferRead(q, out, answer) ==
    LET s == AttributesRead(q, out, answer)[Len(answer)]
    IN  [num |-> s.num, items |-> s.items]

GetChannelList(q, out, answer) == BufferRead(q, out, answer)

GetFeatureSet(q, out, answer) == BufferRead(q, out, answer)

\* GetCapabilitiesCommand: only the first attribute is looked at.  The value
\* it returns, NL_STOP if the driver cannot scan, ends one receive and not the
\* wait.
GetCapabilities(out, answer) ==
    IF Head(answer).type = CAPABILITIES
    THEN [out EXCEPT !.items = Written(@, 1, Head(answer).values[1])] ELSE out

\* GetRttCapabilitiesCommand does the same.
GetRttCapabilities(out, answer) ==
    IF Head(answer).type = CAPABILITIES
    THEN [out EXCEPT !.items = Written(@, 1, Head(answer).values[1])] ELSE out

\* SetCountryCodeCommand has WifiCommand's handleResponse and MKeepAliveCommand
\* one of its own; neither takes anything from a reply.
TakeNothing(out) == out

handleResponse(q, out, answer) ==
    CASE q.class = "channels"  -> GetChannelList(q, out, answer)
      [] q.class = "matrix"    -> GetFeatureSet(q, out, answer)
      [] q.class = "gscan"     -> GetCapabilities(out, answer)
      [] q.class = "rtt"       -> GetRttCapabilities(out, answer)
      [] OTHER                 -> TakeNothing(out)

=============================================================================
