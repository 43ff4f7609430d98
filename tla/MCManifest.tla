----------------------------- MODULE MCManifest -----------------------------
EXTENDS Manifest

plain == [dependsOn |-> <<>>, ports |-> <<>>, mounts |-> <<>>]

\* Every set of dependencies, as the list of its members in their order, and
\* a repeated one.
MCDepLists ==
    {<<1, 1>>} \cup
    {l \in UNION {[1..k -> Names] : k \in 0..Cardinality(Names)} :
        \A j \in 1..(Len(l) - 1) : l[j] < l[j + 1]}

\* Ports at and beyond the limits, repeated in a list or over services.
MCPortLists == {<<1023>>, <<65536>>, <<65535>>, <<1024, 1024>>, <<1024, 65535>>}

mount(source, target) == [source |-> source, target |-> target]
MCMountLists ==
    {<<mount("other", <<"a">>)>>,
     <<mount("data", <<"a">>), mount("bind", <<"b">>)>>,
     <<mount("data", <<"a">>), mount("bind", <<"a", "b">>)>>,
     <<mount("bind", <<"a", "b">>), mount("bind", <<"a">>)>>,
     <<mount("bind", <<"b">>), mount("data", <<>>)>>}

MCEntries ==
    {[plain EXCEPT !.dependsOn = l] : l \in MCDepLists}
    \cup {[plain EXCEPT !.ports = l] : l \in MCPortLists}
    \cup {[plain EXCEPT !.mounts = l] : l \in MCMountLists}
=============================================================================
