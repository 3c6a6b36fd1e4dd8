CONSTANTS
    Worker = Worker
    Main = Main
    Producers = {Worker}
    Consumers = {Main}
    Values = {0, 1, 2, 3, 4, 5, 6, 7, 8, 9, 10, 11, 12, 13, 14, 15}
    None = None
    UintMod = 16
    MaxCount = 3
SPECIFICATION FairSpec
INVARIANTS NoLostWakeup PrimesInOrder OnlyPrimes
PROPERTY MainReturns
