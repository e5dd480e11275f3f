SPECIFICATION PartsSpec
CONSTANTS
    t1 = t1  t2 = t2  t3 = t3  t4 = t4
    Tasks <- FourTasks  NoTask = NoTask
    PoolSize = 4  StackSize = 3  NoEntry = NoEntry
    TableSize = 3  MaxLen = 2  Bytes = {0, 1}  NoHop = NoHop  MaxKey = 1
    HeapSize = 36  Requests = {1, 4, 6, 12}  IntSize = 65536
    Hops = {"h1"}
    MaxAdds = 5
INVARIANT Supporting
