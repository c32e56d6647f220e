SPECIFICATION MCSpec
CONSTANTS
 Handles={h1,h2}
 Servers={s1,s2}
 NoServer=NoServer
 MaxInflight=2
 MaxTimeouts=1
 Domains=1
 Searching={h1}
 DnsParts={"filling","failing","setup","moving","idle","addrinfo","server","names"}
 Queries={q1,q2,q3}
 Labels <- MCLabels
 MaxNames=3
 MaxLabels=3
 BufLen=24
 MaxLabel=2
 MaxName=5
 Closable=TRUE
 Second={h2}
 Orderly=TRUE
 Prompt=TRUE
INVARIANTS ResolverSound AddrInfoSound PortServes NamesReadBack
PROPERTIES LookupsToldOnce
CHECK_DEADLOCK FALSE
SYMMETRY Sym
