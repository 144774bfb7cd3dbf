\* Two administrators of one domain, two requests in flight.
SPECIFICATION Spec
CONSTANTS
    ada = ada
    bob = bob
    acme = acme
    Emails = {ada, bob}
    AdminEmails = {ada, bob}
    Domains = {acme}
    DomainOf <- OneDomain
    UserIds = {u1, u2}
    OrgIds = {o1, o2}
    Addresses = {x}
    Handlers = {h1, h2}
    None = None
SYMMETRY Symmetric
INVARIANTS TypeOK OneOrganization DeletedStayDeleted ProofStands AnAdminRemains EnforcedHasRules
