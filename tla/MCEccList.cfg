SPECIFICATION Spec
CONSTANTS
    AlwaysNumbers = {n112}
    NoSimNumbers = {n000, n110}
    ForMmiNumbers = {}
    CtaNumbers = {n110}
    SimLists = {{n999}, {n000, n112}}
    NetworkLists = {{n5}}
    Numbers = {n112, n000, n110, n999, n5}
INVARIANTS
    SimNumbersHonoured
    EmergencyAsConfigured
